---- MODULE Spec2Model ----
(***************************************************************************)
(* Dockhand Tavern: the refresh-and-cache subsystem.                       *)
(*                                                                         *)
(*   - the entry resolver of src/src/utils.ts (pure operators),            *)
(*   - the CacheManager of src/src/cache.ts (debounce timer, refresh lock, *)
(*     refresh cycle, snapshot reads) as a state machine whose steps are   *)
(*     the event-loop turns of the JavaScript runtime: a request handler,  *)
(*     a timer callback, or the continuation of one awaited upstream call, *)
(*   - the session clients of src/src/dockhand-client.ts and               *)
(*     src/src/npm-client.ts (one fetch call, one step per awaited HTTP    *)
(*     exchange),                                                          *)
(*   - single calls of the exported functions of src/src/utils.ts on       *)
(*     arguments drawn from bounded sets.                                  *)
(***************************************************************************)
EXTENDS Integers, Sequences, FiniteSets, TLC

VARIABLES
  \* ---- CacheManager fields (src/src/cache.ts:12-22) ----
  data,                 \* this.data: the snapshot object currently referenced
  dataRef,              \* identity of the object this.data refers to
  bookmarks,            \* this.bookmarks
  npmClient,            \* this.npmClient # null
  isRefreshing,         \* this.isRefreshing
  debounceTimer,        \* this.debounceTimer: handle of the last timer set, 0 = null
  pendingRefreshCount,  \* this.pendingRefreshCount
  \* ---- runtime around the CacheManager ----
  timers,               \* timeouts set and neither cleared nor fired: {[id, due]}
  inflight,             \* doRefresh activations suspended at an await
  now,                  \* wall clock, milliseconds
  requests,             \* refresh() calls made so far (also the last timer handle)
  immediateCalls,       \* refreshImmediate() calls made so far
  owed,                 \* a refresh() arrived during a cycle and no cycle started since
  lastRead,             \* what get() returned, when the last step was a get()
  \* ---- one fetch call on a session client ----
  kind,                 \* "dockhand" | "npm"
  credential,           \* this.sessionCookie / this.token
  cpc,                  \* the await the running call is suspended at, or "idle"
  wire,                 \* HTTP exchanges of the current call, in the order sent
  outcome,              \* how the last call ended
  calls,                \* calls made on the client so far
  \* ---- one call of a function of src/src/utils.ts ----
  call,                 \* the function called and its arguments
  returned,             \* <<>> while the call runs, then <<its return value>>
  \* ---- the server process (src/src/server.ts) ----
  boot                  \* how far the module's top-level code has run, and with what

coordVars == <<data, dataRef, bookmarks, npmClient, isRefreshing, debounceTimer,
               pendingRefreshCount, timers, inflight, now, requests,
               immediateCalls, owed, lastRead>>
clientVars == <<kind, credential, cpc, wire, outcome, calls>>
utilVars == <<call, returned>>
serverVars == <<boot>>
vars == <<coordVars, clientVars, utilVars, serverVars>>

\* ------------------------------------------------------------------------
\* Bounds of the model
\* ------------------------------------------------------------------------
MaxRequests == 2
MaxImmediate == 1
TickMs == 2500
MaxTime == 7500
MaxCalls == 2
MaxPorts == 3
MaxLen == 3
MaxItems == 3

\* ------------------------------------------------------------------------
\* JavaScript values
\* ------------------------------------------------------------------------
\* undefined / null of an optional string
Undefined == "<undefined>"

\* JavaScript truthiness of an optional string
Truthy(s) == s # Undefined /\ s # ""

\* a || b on optional strings
OrElse(a, b) == IF Truthy(a) THEN a ELSE b

\* container.labels?.[key]
Label(container, key) ==
  IF key \in DOMAIN container.labels THEN container.labels[key] ELSE Undefined

StartsWith(s, p) == Len(s) >= Len(p) /\ SubSeq(s, 1, Len(p)) = p

\* String.prototype.toLowerCase on one character
LowerChar(ch) ==
  CASE ch = "A" -> "a" [] ch = "B" -> "b" [] ch = "C" -> "c" [] ch = "D" -> "d"
    [] ch = "E" -> "e" [] ch = "F" -> "f" [] ch = "G" -> "g" [] ch = "H" -> "h"
    [] ch = "I" -> "i" [] ch = "J" -> "j" [] ch = "K" -> "k" [] ch = "L" -> "l"
    [] ch = "M" -> "m" [] ch = "N" -> "n" [] ch = "O" -> "o" [] ch = "P" -> "p"
    [] ch = "Q" -> "q" [] ch = "R" -> "r" [] ch = "S" -> "s" [] ch = "T" -> "t"
    [] ch = "U" -> "u" [] ch = "V" -> "v" [] ch = "W" -> "w" [] ch = "X" -> "x"
    [] ch = "Y" -> "y" [] ch = "Z" -> "z" [] OTHER -> ch

RECURSIVE ToLowerCase(_)
ToLowerCase(s) ==
  IF Len(s) = 0 THEN "" ELSE LowerChar(Head(s)) \o ToLowerCase(Tail(s))

\* the class [_\s]
IsSepChar(ch) == ch \in {"_", " ", "\t", "\n"}

\* the class [a-z0-9-]
IsIconChar(ch) ==
  ch \in {"a","b","c","d","e","f","g","h","i","j","k","l","m","n","o","p","q","r",
          "s","t","u","v","w","x","y","z","0","1","2","3","4","5","6","7","8","9","-"}

\* .replace(/[_\s]+/g, '-'): every maximal run of separators becomes one hyphen
RECURSIVE ReplaceSepRuns(_, _)
ReplaceSepRuns(s, inRun) ==
  IF Len(s) = 0 THEN ""
  ELSE IF IsSepChar(Head(s))
       THEN (IF inRun THEN "" ELSE "-") \o ReplaceSepRuns(Tail(s), TRUE)
       ELSE Head(s) \o ReplaceSepRuns(Tail(s), FALSE)

\* .replace(/[^a-z0-9-]/g, '')
RECURSIVE StripNonIconChars(_)
StripNonIconChars(s) ==
  IF Len(s) = 0 THEN ""
  ELSE (IF IsIconChar(Head(s)) THEN Head(s) ELSE "") \o StripNonIconChars(Tail(s))

\* a sanitizing chain without the final strip
SanitizeIconNameKeepsOthers(iconName) ==
  ReplaceSepRuns(ToLowerCase(iconName), FALSE)

\* the sanitizing chain of resolveIconUrl
SanitizeIconName(iconName) ==
  StripNonIconChars(ReplaceSepRuns(ToLowerCase(iconName), FALSE))

\* .replace(/\.png$/i, '')
StripPngSuffix(s) ==
  IF Len(s) >= 4 /\ ToLowerCase(SubSeq(s, Len(s) - 3, Len(s))) = ".png"
  THEN SubSeq(s, 1, Len(s) - 4)
  ELSE s

\* ------------------------------------------------------------------------
\* Entry resolver (src/src/utils.ts)
\* ------------------------------------------------------------------------
\* Array.prototype.sort((a, b) => a - b) applied to the members of a Set
RECURSIVE SortAsc(_)
SortAsc(S) ==
  IF S = {} THEN <<>>
  ELSE LET m == CHOOSE x \in S : \A y \in S : x <= y
       IN <<m>> \o SortAsc(S \ {m})

\* a filter that skips an entry only when it has neither public port nor address
PortKeptUnlessBothMissing(port) ==
  /\ ~(port.PublicPort = 0 /\ port.IP = "")
  /\ port.IP # "::"
  /\ port.IP # "127.0.0.1"
  /\ port.Type = "tcp"

\* the entries of extractPorts' loop that reach uniquePorts.add
PortKept(port) ==
  /\ ~(port.PublicPort = 0 \/ port.IP = "")
  /\ port.IP # "::"
  /\ ~(port.IP = "" \/ port.IP = "127.0.0.1")
  /\ port.Type = "tcp"

\* a port extraction that keeps every surviving entry in listed order
extractPortsInOrder(ports) ==
  LET kept == SelectSeq(ports, PortKept)
  IN [i \in 1..Len(kept) |-> kept[i].PublicPort]

extractPorts(ports) ==
  SortAsc({ports[i].PublicPort : i \in {j \in 1..Len(ports) : PortKept(ports[j])}})

\* a network lookup that accepts the unspecified address
extractNetworkIpAcceptsZero(networks) ==
  IF "dhcp-ext" \notin DOMAIN networks THEN Undefined
  ELSE LET ip == networks["dhcp-ext"].ipAddress
       IN IF ~Truthy(ip) \/ ip = "" THEN Undefined ELSE ip

extractNetworkIp(networks) ==
  IF "dhcp-ext" \notin DOMAIN networks THEN Undefined
  ELSE LET ip == networks["dhcp-ext"].ipAddress
       IN IF ~Truthy(ip) \/ ip = "" \/ ip = "0.0.0.0" THEN Undefined ELSE ip

\* certificate_id of a proxy host: a number or null
CertNull == [t |-> "null"]
CertNum(n) == [t |-> "num", v |-> n]

\* a match that does not look at the enabled flag
ProxyMatchesDisabledToo(host, envIp, containerPort) ==
  /\ host.forward_host = envIp
  /\ host.forward_port = containerPort

ProxyMatches(host, envIp, containerPort) ==
  /\ host.enabled = TRUE
  /\ host.forward_host = envIp
  /\ host.forward_port = containerPort

\* a lookup that passes over matches without a domain name
findNpmProxyUrlNextDomain(envIp, containerPort, npmProxyHosts) ==
  LET matches == SelectSeq(npmProxyHosts,
                           LAMBDA host : /\ ProxyMatches(host, envIp, containerPort)
                                         /\ Len(host.domain_names) > 0)
  IN IF Len(matches) = 0 THEN Undefined
     ELSE LET match == matches[1]
              hasSSL == \/ match.ssl_forced
                        \/ (match.certificate_id.t = "num" /\ match.certificate_id.v # 0)
          IN (IF hasSSL THEN "https" ELSE "http") \o "://" \o match.domain_names[1]

findNpmProxyUrl(envIp, containerPort, npmProxyHosts) ==
  LET matches == SelectSeq(npmProxyHosts,
                           LAMBDA host : ProxyMatches(host, envIp, containerPort))
  IN IF Len(matches) = 0 THEN Undefined
     ELSE LET match == matches[1]
              domain == IF Len(match.domain_names) = 0 THEN Undefined
                        ELSE match.domain_names[1]
              hasSSL == \/ match.ssl_forced
                        \/ (match.certificate_id.t = "num" /\ match.certificate_id.v # 0)
          IN IF ~Truthy(domain) THEN Undefined
             ELSE (IF hasSSL THEN "https" ELSE "http") \o "://" \o domain

\* a URL builder that consults the proxy-host table before the URL label
buildContainerUrlProxyFirst(container, firstPort, envPublicIp, networkIp, npmProxyHosts) ==
  LET customUrl == Label(container, "dockhand-tavern.url")
      npmUrl == IF firstPort # 0 /\ Len(npmProxyHosts) > 0
                THEN findNpmProxyUrl(envPublicIp, firstPort, npmProxyHosts)
                ELSE Undefined
      customPort == Label(container, "dockhand-tavern.port")
  IN IF Truthy(npmUrl) THEN npmUrl
     ELSE IF Truthy(customUrl) THEN customUrl
     ELSE IF firstPort # 0 THEN "http://" \o envPublicIp \o ":" \o ToString(firstPort)
     ELSE IF Truthy(networkIp)
          THEN (IF Truthy(customPort)
                THEN "http://" \o networkIp \o ":" \o customPort
                ELSE "http://" \o networkIp)
     ELSE "http://" \o envPublicIp

\* a URL builder that prefers the network address to the published port
buildContainerUrlNetworkFirst(container, firstPort, envPublicIp, networkIp, npmProxyHosts) ==
  LET customUrl == Label(container, "dockhand-tavern.url")
      npmUrl == IF firstPort # 0 /\ Len(npmProxyHosts) > 0
                THEN findNpmProxyUrl(envPublicIp, firstPort, npmProxyHosts)
                ELSE Undefined
      customPort == Label(container, "dockhand-tavern.port")
  IN IF Truthy(customUrl) THEN customUrl
     ELSE IF Truthy(npmUrl) THEN npmUrl
     ELSE IF Truthy(networkIp)
          THEN (IF Truthy(customPort)
                THEN "http://" \o networkIp \o ":" \o customPort
                ELSE "http://" \o networkIp)
     ELSE IF firstPort # 0 THEN "http://" \o envPublicIp \o ":" \o ToString(firstPort)
     ELSE "http://" \o envPublicIp

\* firstPort: 0 stands for null; npmProxyHosts: a sequence (undefined = empty,
\* both fail the length test)
buildContainerUrl(container, firstPort, envPublicIp, networkIp, npmProxyHosts) ==
  LET customUrl == Label(container, "dockhand-tavern.url")
      npmUrl == IF firstPort # 0 /\ Len(npmProxyHosts) > 0
                THEN findNpmProxyUrl(envPublicIp, firstPort, npmProxyHosts)
                ELSE Undefined
      customPort == Label(container, "dockhand-tavern.port")
  IN IF Truthy(customUrl) THEN customUrl
     ELSE IF Truthy(npmUrl) THEN npmUrl
     ELSE IF firstPort # 0 THEN "http://" \o envPublicIp \o ":" \o ToString(firstPort)
     ELSE IF Truthy(networkIp)
          THEN (IF Truthy(customPort)
                THEN "http://" \o networkIp \o ":" \o customPort
                ELSE "http://" \o networkIp)
     ELSE "http://" \o envPublicIp

resolveIconUrl(iconLabel, fallbackName) ==
  IF Truthy(iconLabel) /\ (StartsWith(iconLabel, "http://") \/ StartsWith(iconLabel, "https://"))
  THEN iconLabel
  ELSE LET iconName == IF Truthy(iconLabel) THEN StripPngSuffix(iconLabel)
                       ELSE IF fallbackName = "ungrouped" THEN "docker"
                       ELSE fallbackName
       IN "https://cdn.jsdelivr.net/gh/selfhst/icons/png/"
            \o SanitizeIconName(iconName) \o ".png"

\* a resolver that shows records in any state
processContainerAnyState(container, environment, npmProxyHosts) ==
  LET isDisabled == Label(container, "dockhand-tavern.disable")
      ports == extractPorts(container.ports)
      networkIp == extractNetworkIp(container.networks)
      group == OrElse(Label(container, "dockhand-tavern.group"), "ungrouped")
      displayName == OrElse(Label(container, "dockhand-tavern.name"),
                       OrElse(Label(container, "com.docker.compose.service"),
                              container.name))
      icon == Label(container, "dockhand-tavern.icon")
      firstPort == IF Len(ports) > 0 THEN ports[1] ELSE 0
  IN IF isDisabled = "true" \/ isDisabled = "1" THEN <<>>
     ELSE IF Len(ports) = 0 /\ ~Truthy(networkIp) THEN <<>>
     ELSE << [id |-> container.id,
              displayName |-> displayName,
              group |-> group,
              environment |-> [id |-> environment.id,
                               name |-> environment.name,
                               publicIp |-> environment.publicIp],
              url |-> buildContainerUrl(container, firstPort, environment.publicIp,
                                        networkIp, npmProxyHosts),
              icon |-> icon,
              iconUrl |-> resolveIconUrl(icon, displayName),
              image |-> container.image] >>

\* a resolver that honours only the value "true" of the disable label
processContainerDisableOnlyTrue(container, environment, npmProxyHosts) ==
  LET isDisabled == Label(container, "dockhand-tavern.disable")
      ports == extractPorts(container.ports)
      networkIp == extractNetworkIp(container.networks)
      group == OrElse(Label(container, "dockhand-tavern.group"), "ungrouped")
      displayName == OrElse(Label(container, "dockhand-tavern.name"),
                       OrElse(Label(container, "com.docker.compose.service"),
                              container.name))
      icon == Label(container, "dockhand-tavern.icon")
      firstPort == IF Len(ports) > 0 THEN ports[1] ELSE 0
  IN IF isDisabled = "true" THEN <<>>
     ELSE IF container.state # "running" THEN <<>>
     ELSE IF Len(ports) = 0 /\ ~Truthy(networkIp) THEN <<>>
     ELSE << [id |-> container.id,
              displayName |-> displayName,
              group |-> group,
              environment |-> [id |-> environment.id,
                               name |-> environment.name,
                               publicIp |-> environment.publicIp],
              url |-> buildContainerUrl(container, firstPort, environment.publicIp,
                                        networkIp, npmProxyHosts),
              icon |-> icon,
              iconUrl |-> resolveIconUrl(icon, displayName),
              image |-> container.image] >>

\* a resolver without the reachability guard
processContainerNoGuard(container, environment, npmProxyHosts) ==
  LET isDisabled == Label(container, "dockhand-tavern.disable")
      ports == extractPorts(container.ports)
      networkIp == extractNetworkIp(container.networks)
      group == OrElse(Label(container, "dockhand-tavern.group"), "ungrouped")
      displayName == OrElse(Label(container, "dockhand-tavern.name"),
                       OrElse(Label(container, "com.docker.compose.service"),
                              container.name))
      icon == Label(container, "dockhand-tavern.icon")
      firstPort == IF Len(ports) > 0 THEN ports[1] ELSE 0
  IN IF isDisabled = "true" \/ isDisabled = "1" THEN <<>>
     ELSE IF container.state # "running" THEN <<>>
     ELSE << [id |-> container.id,
              displayName |-> displayName,
              group |-> group,
              environment |-> [id |-> environment.id,
                               name |-> environment.name,
                               publicIp |-> environment.publicIp],
              url |-> buildContainerUrl(container, firstPort, environment.publicIp,
                                        networkIp, npmProxyHosts),
              icon |-> icon,
              iconUrl |-> resolveIconUrl(icon, displayName),
              image |-> container.image] >>

\* a resolver that prefers the compose-service label to the name label
processContainerServiceFirst(container, environment, npmProxyHosts) ==
  LET isDisabled == Label(container, "dockhand-tavern.disable")
      ports == extractPorts(container.ports)
      networkIp == extractNetworkIp(container.networks)
      group == OrElse(Label(container, "dockhand-tavern.group"), "ungrouped")
      displayName == OrElse(Label(container, "com.docker.compose.service"),
                       OrElse(Label(container, "dockhand-tavern.name"),
                              container.name))
      icon == Label(container, "dockhand-tavern.icon")
      firstPort == IF Len(ports) > 0 THEN ports[1] ELSE 0
  IN IF isDisabled = "true" \/ isDisabled = "1" THEN <<>>
     ELSE IF container.state # "running" THEN <<>>
     ELSE IF Len(ports) = 0 /\ ~Truthy(networkIp) THEN <<>>
     ELSE << [id |-> container.id,
              displayName |-> displayName,
              group |-> group,
              environment |-> [id |-> environment.id,
                               name |-> environment.name,
                               publicIp |-> environment.publicIp],
              url |-> buildContainerUrl(container, firstPort, environment.publicIp,
                                        networkIp, npmProxyHosts),
              icon |-> icon,
              iconUrl |-> resolveIconUrl(icon, displayName),
              image |-> container.image] >>

\* processContainer: <<>> stands for null, <<entry>> for a ProcessedContainer
processContainer(container, environment, npmProxyHosts) ==
  LET isDisabled == Label(container, "dockhand-tavern.disable")
      ports == extractPorts(container.ports)
      networkIp == extractNetworkIp(container.networks)
      group == OrElse(Label(container, "dockhand-tavern.group"), "ungrouped")
      displayName == OrElse(Label(container, "dockhand-tavern.name"),
                       OrElse(Label(container, "com.docker.compose.service"),
                              container.name))
      icon == Label(container, "dockhand-tavern.icon")
      firstPort == IF Len(ports) > 0 THEN ports[1] ELSE 0
  IN IF isDisabled = "true" \/ isDisabled = "1" THEN <<>>
     ELSE IF container.state # "running" THEN <<>>
     ELSE IF Len(ports) = 0 /\ ~Truthy(networkIp) THEN <<>>
     ELSE << [id |-> container.id,
              displayName |-> displayName,
              group |-> group,
              environment |-> [id |-> environment.id,
                               name |-> environment.name,
                               publicIp |-> environment.publicIp],
              url |-> buildContainerUrl(container, firstPort, environment.publicIp,
                                        networkIp, npmProxyHosts),
              icon |-> icon,
              iconUrl |-> resolveIconUrl(icon, displayName),
              image |-> container.image] >>

\* ------------------------------------------------------------------------
\* Bookmark loader (src/src/utils.ts)
\* ------------------------------------------------------------------------
\* entry.<field> of a parsed JSON object
Field(entry, f) == IF f \in DOMAIN entry.fields THEN entry.fields[f] ELSE Undefined

processBookmark(entry) ==
  [id |-> "bookmark-" \o Field(entry, "name") \o "-" \o Field(entry, "url"),
   displayName |-> Field(entry, "name"),
   group |-> OrElse(Field(entry, "group"), "ungrouped"),
   environment |-> [id |-> -1, name |-> "bookmark", publicIp |-> ""],
   url |-> Field(entry, "url"),
   icon |-> Field(entry, "icon"),
   iconUrl |-> resolveIconUrl(Field(entry, "icon"), Field(entry, "name")),
   image |-> ""]

\* The for loop of parseBookmarks over bookmarksArray[i..]: ok = FALSE once
\* an element made the loop throw (bookmark.name of null is a TypeError
\* raised outside the inner try).
RECURSIVE BookmarkLoop(_, _, _)
BookmarkLoop(items, i, processed) ==
  IF i > Len(items) THEN [ok |-> TRUE, processed |-> processed]
  ELSE LET bookmark == items[i]
       IN IF bookmark.t = "null" THEN [ok |-> FALSE, processed |-> processed]
          ELSE IF bookmark.t # "object" THEN BookmarkLoop(items, i + 1, processed)
          ELSE IF ~Truthy(Field(bookmark, "name")) \/ ~Truthy(Field(bookmark, "url"))
               THEN BookmarkLoop(items, i + 1, processed)
          ELSE BookmarkLoop(items, i + 1, Append(processed, processBookmark(bookmark)))

\* a loader that takes a lone JSON value for a one-element array
parseBookmarksWrapsValue(bookmarksEnv) ==
  IF bookmarksEnv.t = "absent" THEN <<>>
  ELSE IF bookmarksEnv.t = "invalid" THEN <<>>
  ELSE LET r == BookmarkLoop(IF bookmarksEnv.t = "array" THEN bookmarksEnv.items
                             ELSE <<bookmarksEnv.value>>, 1, <<>>)
       IN IF r.ok THEN r.processed ELSE <<>>

\* bookmarksEnv: [t |-> "absent"], [t |-> "invalid"] (JSON.parse throws),
\* [t |-> "other"] (parses to a non-array) or [t |-> "array", items |-> ...]
parseBookmarks(bookmarksEnv) ==
  IF bookmarksEnv.t = "absent" THEN <<>>
  ELSE IF bookmarksEnv.t = "invalid" THEN <<>>
  ELSE IF bookmarksEnv.t # "array" THEN <<>>
  ELSE LET r == BookmarkLoop(bookmarksEnv.items, 1, <<>>)
       IN IF r.ok THEN r.processed ELSE <<>>

\* ------------------------------------------------------------------------
\* Upstream answers the model draws from
\* ------------------------------------------------------------------------
EnvProd == [id |-> 1, name |-> "prod", type |-> "docker", publicIp |-> "10.0.0.5"]
EnvLab == [id |-> 2, name |-> "lab", type |-> "docker", publicIp |-> "10.0.0.9"]
\* the environment with id 1 after its address was changed upstream
EnvProdMoved == [id |-> 1, name |-> "prod", type |-> "docker", publicIp |-> "10.0.0.7"]

EnvLists == {<<>>, <<EnvProd>>, <<EnvProd, EnvLab>>, <<EnvProdMoved>>}

NoLabels == [k \in {} |-> ""]
NoNetworks == [k \in {} |-> [ipAddress |-> ""]]

ContWeb ==
  [id |-> "c1", name |-> "web", image |-> "nginx:latest", state |-> "running",
   ports |-> <<[IP |-> "0.0.0.0", PrivatePort |-> 80, PublicPort |-> 8080, Type |-> "tcp"],
               [IP |-> "::", PrivatePort |-> 80, PublicPort |-> 8080, Type |-> "tcp"]>>,
   networks |-> NoNetworks, labels |-> NoLabels]

ContStopped ==
  [id |-> "c2", name |-> "job", image |-> "busybox", state |-> "exited",
   ports |-> <<[IP |-> "0.0.0.0", PrivatePort |-> 90, PublicPort |-> 9090, Type |-> "tcp"]>>,
   networks |-> NoNetworks, labels |-> NoLabels]

ContNet ==
  [id |-> "c3", name |-> "pi_hole", image |-> "pihole", state |-> "running",
   ports |-> <<>>,
   networks |-> [k \in {"dhcp-ext"} |-> [ipAddress |-> "192.168.1.20"]],
   labels |-> [k \in {"dockhand-tavern.group"} |-> "Net"]]

ContainerLists == {<<ContWeb>>, <<ContStopped, ContNet>>}

ProxyApp ==
  [enabled |-> TRUE, domain_names |-> <<"app.example.com">>,
   forward_host |-> "10.0.0.5", forward_port |-> 8080,
   ssl_forced |-> TRUE, certificate_id |-> CertNull]

ProxyTables == {<<>>, <<ProxyApp>>}

\* what a session client's fetch throws: Error objects (src/src/dockhand-client.ts:37,
\* 45, 87, 94; src/src/npm-client.ts:37, 82, 89)
PrimaryErrors == {[isError |-> TRUE, message |-> "Request failed: 500"],
                  [isError |-> TRUE, message |-> "Authentication failed: 401"]}
SecondaryErrors == {[isError |-> TRUE, message |-> "NPM request failed: 502"]}

\* process.env.BOOKMARKS at construction
BookmarkWiki ==
  [t |-> "object", fields |-> [k \in {"name", "url"} |->
                                 IF k = "name" THEN "Wiki" ELSE "https://wiki.example.com"]]
BookmarkEnvs == {[t |-> "absent"], [t |-> "array", items |-> <<BookmarkWiki>>]}

\* ------------------------------------------------------------------------
\* CacheManager (src/src/cache.ts)
\* ------------------------------------------------------------------------
DEBOUNCE_MS == 5000

\* error instanceof Error ? error.message : 'Unknown error'
ErrorText(error) == IF error.isError THEN error.message ELSE "Unknown error"

\* a publication that pushes the new entries onto the old list
PublishedSnapshotAccumulates(environments, allContainers, t) ==
  [environments |-> environments, containers |-> data.containers \o allContainers,
   lastUpdate |-> t, error |-> Undefined]

\* a publication that stores the bookmarks in the snapshot
PublishedSnapshotWithBookmarks(environments, allContainers, t) ==
  [environments |-> environments, containers |-> allContainers \o bookmarks,
   lastUpdate |-> t, error |-> Undefined]

\* a publication that carries the recorded error over
PublishedSnapshotKeepsError(environments, allContainers, t) ==
  [environments |-> environments, containers |-> allContainers,
   lastUpdate |-> t, error |-> data.error]

\* the object literal assigned to this.data at the end of a successful cycle
PublishedSnapshot(environments, allContainers, t) ==
  [environments |-> environments, containers |-> allContainers,
   lastUpdate |-> t, error |-> Undefined]

\* a catch block that resets the entry list
FailedSnapshotDropsEntries(d, error, t) ==
  [d EXCEPT !.error = ErrorText(error), !.lastUpdate = t, !.containers = <<>>]

\* the two field assignments of doRefresh's catch block, made on the object d
FailedSnapshot(d, error, t) ==
  [d EXCEPT !.error = ErrorText(error), !.lastUpdate = t]

\* the containers one environment contributes to allContainers
RECURSIVE ProcessAll(_, _, _)
ProcessAll(rawContainers, env, npmProxyHosts) ==
  IF Len(rawContainers) = 0 THEN <<>>
  ELSE processContainer(Head(rawContainers), env, npmProxyHosts)
         \o ProcessAll(Tail(rawContainers), env, npmProxyHosts)

\* a get() that returns the snapshot alone
GetResultWithoutBookmarks(d, bm) == d

\* get()
GetResult(d, bm) == [d EXCEPT !.containers = d.containers \o bm]

\* statistics that count the bookmarks among the containers
getStatsCountsAll ==
  [totalContainers |-> Len(data.containers) + Len(bookmarks),
   totalBookmarks |-> Len(bookmarks),
   totalEnvironments |-> Len(data.environments),
   lastUpdate |-> data.lastUpdate,
   hasError |-> Truthy(data.error)]

\* getStats()
getStats ==
  [totalContainers |-> Len(data.containers),
   totalBookmarks |-> Len(bookmarks),
   totalEnvironments |-> Len(data.environments),
   lastUpdate |-> data.lastUpdate,
   hasError |-> Truthy(data.error)]

RemoveAt(seq, i) == SubSeq(seq, 1, i - 1) \o SubSeq(seq, i + 1, Len(seq))

\* doRefresh up to its first await
\* (caller, npmFailed, dataAtStart and fetched record the activation's history:
\* who awaits it, whether the proxy-host fetch threw, this.data when it started,
\* and how fetchContainers ended for each environment passed so far)
NewCycle(caller) ==
  [pc |-> IF npmClient THEN "npm" ELSE "envs",
   npmProxyHosts |-> <<>>, environments |-> <<>>, idx |-> 0,
   allContainers |-> <<>>,
   caller |-> caller, npmFailed |-> FALSE, dataAtStart |-> data,
   fetched |-> <<>>]

\* a return of doRefresh whose caller leaves the lock set
CycleReturnsKeepsLock(i) ==
  /\ inflight' = RemoveAt(inflight, i)
  /\ isRefreshing' = isRefreshing

\* doRefresh returns and the caller's finally block releases the lock
CycleReturns(i) ==
  /\ inflight' = RemoveAt(inflight, i)
  /\ isRefreshing' = FALSE

\* a publication that assigns the fields of the current object
PublishInPlace(i, environments, allContainers) ==
  /\ data' = PublishedSnapshot(environments, allContainers, now)
  /\ dataRef' = dataRef
  /\ CycleReturns(i)

\* the assignment this.data = {...} followed by the return
Publish(i, environments, allContainers) ==
  /\ data' = PublishedSnapshot(environments, allContainers, now)
  /\ dataRef' = dataRef + 1
  /\ CycleReturns(i)

\* doRefresh's catch block followed by the return
Fail(i, error) ==
  /\ data' = FailedSnapshot(data, error, now)
  /\ dataRef' = dataRef
  /\ CycleReturns(i)

\* NPM_URL, NPM_EMAIL, NPM_PASSWORD: which of them the environment supplies
NpmConfigs ==
  {[url |-> TRUE, email |-> TRUE, password |-> TRUE],
   [url |-> TRUE, email |-> TRUE, password |-> FALSE],
   [url |-> FALSE, email |-> TRUE, password |-> TRUE],
   [url |-> FALSE, email |-> FALSE, password |-> FALSE]}

\* NPM_URL && NPM_EMAIL && NPM_PASSWORD
NpmConfigured(config) == config.url /\ config.email /\ config.password

\* the server has run its top-level code and listens
ServerUp ==
  boot = [pc |-> "listening",
          npmConfig |-> [url |-> FALSE, email |-> FALSE, password |-> FALSE],
          npmConnected |-> "none"]

CoordInit ==
  /\ data = [environments |-> <<>>, containers |-> <<>>, lastUpdate |-> 0,
             error |-> Undefined]
  /\ dataRef = 1
  /\ bookmarks \in {parseBookmarks(b) : b \in BookmarkEnvs}
  /\ npmClient \in BOOLEAN
  /\ isRefreshing = FALSE
  /\ debounceTimer = 0
  /\ pendingRefreshCount = 0
  /\ timers = {}
  /\ inflight = <<>>
  /\ now = 0
  /\ requests = 0
  /\ immediateCalls = 0
  /\ owed = FALSE
  /\ lastRead = <<>>

\* the cache manager takes no step in this specification
CoordIdle ==
  /\ data = [environments |-> <<>>, containers |-> <<>>, lastUpdate |-> 0,
             error |-> Undefined]
  /\ dataRef = 1
  /\ bookmarks = <<>>
  /\ npmClient = FALSE
  /\ isRefreshing = FALSE
  /\ debounceTimer = 0
  /\ pendingRefreshCount = 0
  /\ timers = {}
  /\ inflight = <<>>
  /\ now = 0
  /\ requests = 0
  /\ immediateCalls = 0
  /\ owed = FALSE
  /\ lastRead = <<>>

\* a refresh that starts the cycle itself when the lock is free
RefreshRunsAtOnce ==
  /\ requests < MaxRequests
  /\ requests' = requests + 1
  /\ pendingRefreshCount' = pendingRefreshCount + 1
  /\ timers' = {t \in timers : t.id # debounceTimer}
                 \cup {[id |-> requests + 1, due |-> now + DEBOUNCE_MS]}
  /\ debounceTimer' = requests + 1
  /\ IF isRefreshing
     THEN owed' = TRUE /\ UNCHANGED <<isRefreshing, inflight>>
     ELSE /\ isRefreshing' = TRUE
          /\ inflight' = Append(inflight, NewCycle("timer"))
          /\ owed' = FALSE
  /\ UNCHANGED <<data, dataRef, bookmarks, npmClient, now, immediateCalls>>
  /\ lastRead' = <<>>
  /\ UNCHANGED <<clientVars, utilVars, serverVars>>

\* a refresh that leaves the timer of the previous request armed
RefreshKeepsTimer ==
  /\ requests < MaxRequests
  /\ requests' = requests + 1
  /\ pendingRefreshCount' = pendingRefreshCount + 1
  /\ timers' = timers \cup {[id |-> requests + 1, due |-> now + DEBOUNCE_MS]}
  /\ debounceTimer' = requests + 1
  /\ owed' = (owed \/ isRefreshing)
  /\ UNCHANGED <<data, dataRef, bookmarks, npmClient, isRefreshing, inflight, now,
                 immediateCalls>>
  /\ lastRead' = <<>>
  /\ UNCHANGED <<clientVars, utilVars, serverVars>>

\* a refresh that sets the pending count to one
RefreshCountsOne ==
  /\ requests < MaxRequests
  /\ requests' = requests + 1
  /\ pendingRefreshCount' = 1
  /\ timers' = {t \in timers : t.id # debounceTimer}
                 \cup {[id |-> requests + 1, due |-> now + DEBOUNCE_MS]}
  /\ debounceTimer' = requests + 1
  /\ owed' = (owed \/ isRefreshing)
  /\ UNCHANGED <<data, dataRef, bookmarks, npmClient, isRefreshing, inflight, now,
                 immediateCalls>>
  /\ lastRead' = <<>>
  /\ UNCHANGED <<clientVars, utilVars, serverVars>>

\* refresh(client): count the request, clear the timer, set a new one
Refresh ==
  /\ requests < MaxRequests
  /\ requests' = requests + 1
  /\ pendingRefreshCount' = pendingRefreshCount + 1
  /\ timers' = {t \in timers : t.id # debounceTimer}
                 \cup {[id |-> requests + 1, due |-> now + DEBOUNCE_MS]}
  /\ debounceTimer' = requests + 1
  /\ owed' = (owed \/ isRefreshing)
  /\ UNCHANGED <<data, dataRef, bookmarks, npmClient, isRefreshing, inflight, now,
                 immediateCalls>>
  /\ lastRead' = <<>>
  /\ UNCHANGED <<clientVars, utilVars, serverVars>>

\* a timer callback that keeps the pending count when it is locked out
TimerFiresKeepsCount(t) ==
  /\ t \in timers
  /\ now >= t.due
  /\ timers' = timers \ {t}
  /\ IF isRefreshing
     THEN UNCHANGED <<isRefreshing, inflight, owed, pendingRefreshCount>>
     ELSE /\ isRefreshing' = TRUE
          /\ inflight' = Append(inflight, NewCycle("timer"))
          /\ owed' = FALSE
          /\ pendingRefreshCount' = 0
  /\ UNCHANGED <<data, dataRef, bookmarks, npmClient, debounceTimer, now, requests,
                 immediateCalls>>
  /\ lastRead' = <<>>
  /\ UNCHANGED <<clientVars, utilVars, serverVars>>

\* the callback given to setTimeout in refresh(), up to its first await
TimerFires(t) ==
  /\ t \in timers
  /\ now >= t.due
  /\ timers' = timers \ {t}
  /\ pendingRefreshCount' = 0
  /\ IF isRefreshing
     THEN UNCHANGED <<isRefreshing, inflight, owed>>
     ELSE /\ isRefreshing' = TRUE
          /\ inflight' = Append(inflight, NewCycle("timer"))
          /\ owed' = FALSE
  /\ UNCHANGED <<data, dataRef, bookmarks, npmClient, debounceTimer, now, requests,
                 immediateCalls>>
  /\ lastRead' = <<>>
  /\ UNCHANGED <<clientVars, utilVars, serverVars>>

\* a refreshImmediate that does not test the lock
RefreshImmediateNoLock ==
  /\ immediateCalls < MaxImmediate
  /\ immediateCalls' = immediateCalls + 1
  /\ isRefreshing' = TRUE
  /\ inflight' = Append(inflight, NewCycle("immediate"))
  /\ owed' = FALSE
  /\ UNCHANGED <<data, dataRef, bookmarks, npmClient, debounceTimer,
                 pendingRefreshCount, timers, now, requests>>
  /\ lastRead' = <<>>
  /\ UNCHANGED <<clientVars, utilVars, serverVars>>

\* a refreshImmediate that counts itself as a pending request when locked out
RefreshImmediateQueues ==
  /\ immediateCalls < MaxImmediate
  /\ immediateCalls' = immediateCalls + 1
  /\ IF isRefreshing
     THEN /\ pendingRefreshCount' = pendingRefreshCount + 1
          /\ UNCHANGED <<isRefreshing, inflight, owed>>
     ELSE /\ isRefreshing' = TRUE
          /\ inflight' = Append(inflight, NewCycle("immediate"))
          /\ owed' = FALSE
          /\ UNCHANGED pendingRefreshCount
  /\ UNCHANGED <<data, dataRef, bookmarks, npmClient, debounceTimer,
                 timers, now, requests>>
  /\ lastRead' = <<>>
  /\ UNCHANGED <<clientVars, utilVars, serverVars>>

\* refreshImmediate(client), up to its first await
RefreshImmediate ==
  /\ immediateCalls < MaxImmediate
  /\ immediateCalls' = immediateCalls + 1
  /\ IF isRefreshing
     THEN UNCHANGED <<isRefreshing, inflight, owed>>
     ELSE /\ isRefreshing' = TRUE
          /\ inflight' = Append(inflight, NewCycle("immediate"))
          /\ owed' = FALSE
  /\ UNCHANGED <<data, dataRef, bookmarks, npmClient, debounceTimer,
                 pendingRefreshCount, timers, now, requests>>
  /\ lastRead' = <<>>
  /\ UNCHANGED <<clientVars, utilVars, serverVars>>

\* doRefresh resumes after npmClient.fetchProxyHosts() resolved
NpmFetchReturns(i, table) ==
  /\ inflight[i].pc = "npm"
  /\ inflight' = [inflight EXCEPT ![i].pc = "envs", ![i].npmProxyHosts = table]
  /\ UNCHANGED <<data, dataRef, bookmarks, npmClient, isRefreshing, debounceTimer,
                 pendingRefreshCount, timers, now, requests, immediateCalls, owed>>
  /\ lastRead' = <<>>
  /\ UNCHANGED <<clientVars, utilVars, serverVars>>

\* a proxy-host failure that reaches doRefresh's outer catch
NpmFetchThrowsAborts(i, error) ==
  /\ inflight[i].pc = "npm"
  /\ Fail(i, error)
  /\ UNCHANGED <<bookmarks, npmClient, debounceTimer, pendingRefreshCount, timers,
                 now, requests, immediateCalls, owed>>
  /\ lastRead' = <<>>
  /\ UNCHANGED <<clientVars, utilVars, serverVars>>

\* doRefresh resumes after npmClient.fetchProxyHosts() rejected: the inner catch
NpmFetchThrows(i, error) ==
  /\ inflight[i].pc = "npm"
  /\ inflight' = [inflight EXCEPT ![i].pc = "envs", ![i].npmFailed = TRUE]
  /\ UNCHANGED <<data, dataRef, bookmarks, npmClient, isRefreshing, debounceTimer,
                 pendingRefreshCount, timers, now, requests, immediateCalls, owed>>
  /\ lastRead' = <<>>
  /\ UNCHANGED <<clientVars, utilVars, serverVars>>

\* doRefresh resumes after client.fetchEnvironments() resolved
EnvFetchReturns(i, environments) ==
  /\ inflight[i].pc = "envs"
  /\ IF Len(environments) = 0
     THEN Publish(i, environments, <<>>)
     ELSE /\ inflight' = [inflight EXCEPT ![i].pc = "containers",
                                          ![i].environments = environments,
                                          ![i].idx = 1]
          /\ UNCHANGED <<data, dataRef, isRefreshing>>
  /\ UNCHANGED <<bookmarks, npmClient, debounceTimer, pendingRefreshCount, timers,
                 now, requests, immediateCalls, owed>>
  /\ lastRead' = <<>>
  /\ UNCHANGED <<clientVars, utilVars, serverVars>>

\* doRefresh resumes after client.fetchEnvironments() rejected: the outer catch
EnvFetchThrows(i, error) ==
  /\ inflight[i].pc = "envs"
  /\ Fail(i, error)
  /\ UNCHANGED <<bookmarks, npmClient, debounceTimer, pendingRefreshCount, timers,
                 now, requests, immediateCalls, owed>>
  /\ lastRead' = <<>>
  /\ UNCHANGED <<clientVars, utilVars, serverVars>>

\* the for loop over environments moves past environments[idx] with
\* allContainers = all, after fetchContainers ended as fetchResult
LoopAdvances(i, all, fetchResult) ==
  LET c == inflight[i]
  IN IF c.idx = Len(c.environments)
     THEN Publish(i, c.environments, all)
     ELSE /\ inflight' = [inflight EXCEPT ![i].idx = c.idx + 1,
                                          ![i].allContainers = all,
                                          ![i].fetched = Append(c.fetched, fetchResult)]
          /\ UNCHANGED <<data, dataRef, isRefreshing>>

\* a resumption that puts the new entries in front of those collected so far
ContainersFetchReturnsPrepends(i, rawContainers) ==
  /\ inflight[i].pc = "containers"
  /\ LET c == inflight[i]
     IN LoopAdvances(i, ProcessAll(rawContainers, c.environments[c.idx],
                                   c.npmProxyHosts)
                          \o c.allContainers,
                     [ok |-> TRUE, rawContainers |-> rawContainers])
  /\ UNCHANGED <<bookmarks, npmClient, debounceTimer, pendingRefreshCount, timers,
                 now, requests, immediateCalls, owed>>
  /\ lastRead' = <<>>
  /\ UNCHANGED <<clientVars, utilVars, serverVars>>

\* doRefresh resumes after client.fetchContainers(env.id) resolved
ContainersFetchReturns(i, rawContainers) ==
  /\ inflight[i].pc = "containers"
  /\ LET c == inflight[i]
     IN LoopAdvances(i, c.allContainers
                          \o ProcessAll(rawContainers, c.environments[c.idx],
                                        c.npmProxyHosts),
                     [ok |-> TRUE, rawContainers |-> rawContainers])
  /\ UNCHANGED <<bookmarks, npmClient, debounceTimer, pendingRefreshCount, timers,
                 now, requests, immediateCalls, owed>>
  /\ lastRead' = <<>>
  /\ UNCHANGED <<clientVars, utilVars, serverVars>>

\* a record-fetch failure that reaches doRefresh's outer catch
ContainersFetchThrowsAborts(i, error) ==
  /\ inflight[i].pc = "containers"
  /\ Fail(i, error)
  /\ UNCHANGED <<bookmarks, npmClient, debounceTimer, pendingRefreshCount, timers,
                 now, requests, immediateCalls, owed>>
  /\ lastRead' = <<>>
  /\ UNCHANGED <<clientVars, utilVars, serverVars>>

\* doRefresh resumes after client.fetchContainers(env.id) rejected: the loop's catch
ContainersFetchThrows(i, error) ==
  /\ inflight[i].pc = "containers"
  /\ LoopAdvances(i, inflight[i].allContainers, [ok |-> FALSE])
  /\ UNCHANGED <<bookmarks, npmClient, debounceTimer, pendingRefreshCount, timers,
                 now, requests, immediateCalls, owed>>
  /\ lastRead' = <<>>
  /\ UNCHANGED <<clientVars, utilVars, serverVars>>

\* get(), called from a request handler
Get ==
  /\ lastRead' = <<[result |-> GetResult(data, bookmarks),
                    ref |-> dataRef,
                    timerArmed |-> timers # {},
                    cycleInFlight |-> inflight # <<>>]>>
  /\ UNCHANGED <<data, dataRef, bookmarks, npmClient, isRefreshing, debounceTimer,
                 pendingRefreshCount, timers, inflight, now, requests,
                 immediateCalls, owed>>
  /\ UNCHANGED <<clientVars, utilVars, serverVars>>

\* time passes
Tick ==
  /\ now + TickMs <= MaxTime
  /\ now' = now + TickMs
  /\ UNCHANGED <<data, dataRef, bookmarks, npmClient, isRefreshing, debounceTimer,
                 pendingRefreshCount, timers, inflight, requests, immediateCalls,
                 owed>>
  /\ lastRead' = <<>>
  /\ UNCHANGED <<clientVars, utilVars, serverVars>>

CoordNext ==
  \/ Refresh
  \/ \E t \in timers : TimerFires(t)
  \/ RefreshImmediate
  \/ \E i \in 1..Len(inflight) : \E table \in ProxyTables : NpmFetchReturns(i, table)
  \/ \E i \in 1..Len(inflight) : \E error \in SecondaryErrors : NpmFetchThrows(i, error)
  \/ \E i \in 1..Len(inflight) : \E environments \in EnvLists :
        EnvFetchReturns(i, environments)
  \/ \E i \in 1..Len(inflight) : \E error \in PrimaryErrors : EnvFetchThrows(i, error)
  \/ \E i \in 1..Len(inflight) : \E rawContainers \in ContainerLists :
        ContainersFetchReturns(i, rawContainers)
  \/ \E i \in 1..Len(inflight) : \E error \in PrimaryErrors :
        ContainersFetchThrows(i, error)
  \/ Get
  \/ Tick

\* the session clients take no step in this specification
ClientIdle ==
  /\ kind = "dockhand"
  /\ credential = Undefined
  /\ cpc = "idle"
  /\ wire = <<>>
  /\ outcome = [state |-> "none"]
  /\ calls = 0

\* no function of utils.ts is being called on its own
UtilIdle ==
  /\ call = [fn |-> "none"]
  /\ returned = <<>>

Init == CoordInit /\ ClientIdle /\ UtilIdle /\ ServerUp

Next == CoordNext

Spec == Init /\ [][Next]_vars

\* a pending upstream call of some cycle returns or fails and doRefresh resumes:
\* a step that is no request, timer callback, read or passing of time
UpstreamAnswers ==
  /\ UNCHANGED <<timers, now, requests, immediateCalls>>
  /\ lastRead' = <<>>
  /\ \E i \in 1..Len(inflight) :
       \/ \E error \in SecondaryErrors : NpmFetchThrows(i, error)
       \/ \E error \in PrimaryErrors : EnvFetchThrows(i, error)
       \/ \E error \in PrimaryErrors : ContainersFetchThrows(i, error)
       \/ \E table \in ProxyTables : NpmFetchReturns(i, table)
       \/ \E environments \in EnvLists : EnvFetchReturns(i, environments)
       \/ \E rawContainers \in ContainerLists : ContainersFetchReturns(i, rawContainers)

\* a coordinator constructed without bookmarks
InitLive == Init /\ bookmarks = <<>>

\* the steps that change the coordinator: every step of Next but the read
\* get(), which changes nothing the coordinator holds
NextLive ==
  \/ Refresh
  \/ \E t \in timers : TimerFires(t)
  \/ RefreshImmediate
  \/ UpstreamAnswers
  \/ Tick

\* the coordinator when every upstream call eventually returns or fails: a
\* pending await of doRefresh is resumed by the event loop once its promise
\* settles
SpecLive == InitLive /\ [][NextLive]_vars /\ WF_vars(UpstreamAnswers)

\* an upstream answer with two records that resolve to entries, around one
\* that does not
RecordOrderLists == {<<ContNet, ContStopped, ContWeb>>}

\* client.fetchContainers(env.id) resolves with such an answer
RecordsAnswer ==
  /\ UNCHANGED <<timers, now, requests, immediateCalls>>
  /\ \E i \in 1..Len(inflight) : \E rawContainers \in RecordOrderLists :
       ContainersFetchReturns(i, rawContainers)

\* the coordinator with these answers among those the upstream gives
NextCycle ==
  \/ NextLive
  \/ RecordsAnswer

SpecCycle == InitLive /\ [][NextCycle]_vars

\* ------------------------------------------------------------------------
\* Server startup (src/src/server.ts)
\* ------------------------------------------------------------------------
\* the process starts: nothing is constructed yet
ServerInit ==
  boot \in {[pc |-> "npm", npmConfig |-> config, npmConnected |-> "none"] :
              config \in NpmConfigs}

\* how the startup call of npmClient.testConnection() can end
TestResults == {"true", "false", "throws"}

\* a startup that keeps the NPM client whatever testConnection() reported
StartupNpmKeepsClient(result) ==
  /\ boot.pc = "npm"
  /\ IF NpmConfigured(boot.npmConfig) THEN result \in TestResults ELSE result = "none"
  /\ boot' = [boot EXCEPT !.pc = "populate", !.npmConnected = result]
  /\ npmClient' = NpmConfigured(boot.npmConfig)
  /\ UNCHANGED <<data, dataRef, bookmarks, isRefreshing, debounceTimer,
                 pendingRefreshCount, timers, inflight, now, requests,
                 immediateCalls, owed, lastRead>>
  /\ UNCHANGED <<clientVars, utilVars>>

\* the NPM client is created and tested when all three values are supplied,
\* and dropped unless testConnection() returned true; then the CacheManager
\* is constructed with what is left
StartupNpm(result) ==
  /\ boot.pc = "npm"
  /\ IF NpmConfigured(boot.npmConfig) THEN result \in TestResults ELSE result = "none"
  /\ boot' = [boot EXCEPT !.pc = "populate", !.npmConnected = result]
  /\ npmClient' = (result = "true")
  /\ UNCHANGED <<data, dataRef, bookmarks, isRefreshing, debounceTimer,
                 pendingRefreshCount, timers, inflight, now, requests,
                 immediateCalls, owed, lastRead>>
  /\ UNCHANGED <<clientVars, utilVars>>

\* cache.refreshImmediate(client) is called
StartupPopulate ==
  /\ boot.pc = "populate"
  /\ immediateCalls = 0
  /\ RefreshImmediate

\* a startup that does not await the initial refresh
StartupListenAtOnce ==
  /\ boot.pc = "populate"
  /\ immediateCalls = 1
  /\ boot' = [boot EXCEPT !.pc = "listening"]
  /\ UNCHANGED <<coordVars, clientVars, utilVars>>

\* the await of refreshImmediate() is over: the routes are registered and the
\* server listens
StartupListen ==
  /\ boot.pc = "populate"
  /\ immediateCalls = 1
  /\ inflight = <<>>
  /\ boot' = [boot EXCEPT !.pc = "listening"]
  /\ UNCHANGED <<coordVars, clientVars, utilVars>>

\* a request handler runs: only a listening server has any
Serves(Handler) == boot.pc = "listening" /\ Handler

NextStartup ==
  \/ \E result \in TestResults \cup {"none"} : StartupNpm(result)
  \/ StartupPopulate
  \/ StartupListen
  \/ Serves(Refresh)
  \/ Serves(Get)
  \/ \E t \in timers : TimerFires(t)
  \/ UpstreamAnswers
  \/ Tick

InitStartup == CoordIdle /\ ClientIdle /\ UtilIdle /\ ServerInit

SpecStartup == InitStartup /\ [][NextStartup]_vars

\* ------------------------------------------------------------------------
\* Session clients (src/src/dockhand-client.ts, src/src/npm-client.ts)
\* ------------------------------------------------------------------------
\* An HTTP answer: net = FALSE when fetch itself rejects; artifact is the
\* set-cookie header (dockhand) or the token of the JSON body (npm), Undefined
\* when the upstream left it out; bodyOk = FALSE when response.json() rejects.
Answer(net, status, artifact, bodyOk) ==
  [net |-> net, status |-> status, artifact |-> artifact, bodyOk |-> bodyOk]

LoginAnswers(k) ==
  {Answer(TRUE, 200, IF k = "dockhand" THEN "sid=abc" ELSE "jwt.abc", TRUE),
   Answer(TRUE, 200, Undefined, TRUE),
   Answer(TRUE, 401, Undefined, TRUE),
   Answer(FALSE, 0, Undefined, TRUE)}
    \cup (IF k = "npm" THEN {Answer(TRUE, 200, Undefined, FALSE)} ELSE {})

DataAnswers ==
  {Answer(TRUE, 200, Undefined, TRUE),
   Answer(TRUE, 200, Undefined, FALSE),
   Answer(TRUE, 401, Undefined, TRUE),
   Answer(TRUE, 500, Undefined, TRUE),
   Answer(FALSE, 0, Undefined, TRUE)}

\* response.ok
ResponseOk(r) == r.status >= 200 /\ r.status <= 299

Rejected(message) == [state |-> "rejected", error |-> message]
Resolved(value) == [state |-> "resolved", value |-> value]

\* authenticate(): what it stores and whether it throws, given the login answer
authenticate(k, r) ==
  IF ~r.net THEN [ok |-> FALSE, error |-> "fetch failed"]
  ELSE IF ~ResponseOk(r)
       THEN [ok |-> FALSE,
             error |-> (IF k = "dockhand" THEN "Authentication failed: "
                        ELSE "NPM authentication failed: ") \o ToString(r.status)]
  ELSE IF k = "dockhand"
       THEN (IF Truthy(r.artifact)
             THEN [ok |-> TRUE, credential |-> r.artifact]
             ELSE [ok |-> FALSE, error |-> "No session cookie received from Dockhand"])
  ELSE IF ~r.bodyOk THEN [ok |-> FALSE, error |-> "Unexpected end of JSON input"]
  ELSE [ok |-> TRUE, credential |-> r.artifact]

SendLogin(w) == Append(w, [req |-> "login", cred |-> Undefined, resp |-> <<>>])
SendData(w, c) == Append(w, [req |-> "data", cred |-> c, resp |-> <<>>])
Answered(w, r) == [w EXCEPT ![Len(w)].resp = <<r>>]

\* request(path) up to its first fetch: ensureAuthenticated() logs in only
\* when no credential is held
CallRequest ==
  /\ cpc = "idle"
  /\ calls < MaxCalls
  /\ calls' = calls + 1
  /\ outcome' = [state |-> "none"]
  /\ IF ~Truthy(credential)
     THEN wire' = SendLogin(<<>>) /\ cpc' = "ensureAuth"
     ELSE wire' = SendData(<<>>, credential) /\ cpc' = "request"
  /\ UNCHANGED <<kind, credential>>
  /\ UNCHANGED <<coordVars, utilVars, serverVars>>

\* testConnection() up to the fetch of authenticate()
CallTestConnection ==
  /\ cpc = "idle"
  /\ calls < MaxCalls
  /\ calls' = calls + 1
  /\ outcome' = [state |-> "none"]
  /\ wire' = SendLogin(<<>>)
  /\ cpc' = "test"
  /\ UNCHANGED <<kind, credential>>
  /\ UNCHANGED <<coordVars, utilVars, serverVars>>

\* the login exchange is answered: authenticate() returns or throws into the
\* await of ensureAuthenticated(), request() or testConnection()
LoginAnswered(r) ==
  /\ cpc \in {"ensureAuth", "reauth", "test"}
  /\ LET a == authenticate(kind, r)
     IN /\ credential' = IF a.ok THEN a.credential ELSE credential
        /\ IF cpc = "test"
           THEN /\ wire' = Answered(wire, r)
                /\ cpc' = "idle"
                /\ outcome' = Resolved(a.ok)
           ELSE IF a.ok
           THEN /\ wire' = SendData(Answered(wire, r), a.credential)
                /\ cpc' = (IF cpc = "ensureAuth" THEN "request" ELSE "retry")
                /\ outcome' = outcome
           ELSE /\ wire' = Answered(wire, r)
                /\ cpc' = "idle"
                /\ outcome' = Rejected(a.error)
  /\ UNCHANGED <<kind, calls>>
  /\ UNCHANGED <<coordVars, utilVars, serverVars>>

RequestFailed(k, r) ==
  (IF k = "dockhand" THEN "Request failed: " ELSE "NPM request failed: ")
    \o ToString(r.status)

\* a request() that re-authenticates after every unauthorized answer
DataAnsweredRetriesAgain(r) ==
  /\ cpc \in {"request", "retry"}
  /\ IF ~r.net
     THEN /\ wire' = Answered(wire, r)
          /\ cpc' = "idle"
          /\ outcome' = Rejected("fetch failed")
          /\ credential' = credential
     ELSE IF r.status = 401
     THEN /\ credential' = Undefined
          /\ wire' = SendLogin(Answered(wire, r))
          /\ cpc' = "reauth"
          /\ outcome' = outcome
     ELSE /\ wire' = Answered(wire, r)
          /\ cpc' = "idle"
          /\ credential' = credential
          /\ outcome' = IF ~ResponseOk(r) THEN Rejected(RequestFailed(kind, r))
                        ELSE IF ~r.bodyOk THEN Rejected("Unexpected end of JSON input")
                        ELSE Resolved(TRUE)
  /\ UNCHANGED <<kind, calls>>
  /\ UNCHANGED <<coordVars, utilVars, serverVars>>

\* a data request is answered: the first one (cpc = "request") or the retry
DataAnswered(r) ==
  /\ cpc \in {"request", "retry"}
  /\ IF ~r.net
     THEN /\ wire' = Answered(wire, r)
          /\ cpc' = "idle"
          /\ outcome' = Rejected("fetch failed")
          /\ credential' = credential
     ELSE IF cpc = "request" /\ r.status = 401
     THEN /\ credential' = Undefined
          /\ wire' = SendLogin(Answered(wire, r))
          /\ cpc' = "reauth"
          /\ outcome' = outcome
     ELSE /\ wire' = Answered(wire, r)
          /\ cpc' = "idle"
          /\ credential' = credential
          /\ outcome' = IF ~ResponseOk(r) THEN Rejected(RequestFailed(kind, r))
                        ELSE IF ~r.bodyOk THEN Rejected("Unexpected end of JSON input")
                        ELSE Resolved(TRUE)
  /\ UNCHANGED <<kind, calls>>
  /\ UNCHANGED <<coordVars, utilVars, serverVars>>

ClientInit ==
  /\ kind \in {"dockhand", "npm"}
  /\ credential = Undefined
  /\ cpc = "idle"
  /\ wire = <<>>
  /\ outcome = [state |-> "none"]
  /\ calls = 0

ClientNext ==
  \/ CallRequest
  \/ CallTestConnection
  \/ \E r \in LoginAnswers(kind) : LoginAnswered(r)
  \/ \E r \in DataAnswers : DataAnswered(r)

InitClient == CoordIdle /\ ClientInit /\ UtilIdle /\ ServerUp

SpecClient == InitClient /\ [][ClientNext]_vars

\* ------------------------------------------------------------------------
\* Single calls of the functions of src/src/utils.ts
\* ------------------------------------------------------------------------
\* DockhandPort values: PublicPort 0 and IP "" stand for a field the upstream
\* left out (both are falsy, as undefined is)
PortWeb == [IP |-> "0.0.0.0", PrivatePort |-> 80, PublicPort |-> 8080, Type |-> "tcp"]
PortWebV6 == [IP |-> "::", PrivatePort |-> 80, PublicPort |-> 8080, Type |-> "tcp"]
PortTls == [IP |-> "0.0.0.0", PrivatePort |-> 443, PublicPort |-> 443, Type |-> "tcp"]
PortLoopback == [IP |-> "127.0.0.1", PrivatePort |-> 5432, PublicPort |-> 5432, Type |-> "tcp"]
PortUdp == [IP |-> "0.0.0.0", PrivatePort |-> 53, PublicPort |-> 53, Type |-> "udp"]
PortUnpublished == [IP |-> "", PrivatePort |-> 3000, PublicPort |-> 0, Type |-> "tcp"]
PortNoIp == [IP |-> "", PrivatePort |-> 9000, PublicPort |-> 9000, Type |-> "tcp"]
PortNoPublic == [IP |-> "0.0.0.0", PrivatePort |-> 8443, PublicPort |-> 0, Type |-> "tcp"]

PortPool == {PortWeb, PortWebV6, PortTls, PortLoopback, PortUdp, PortUnpublished,
             PortNoIp, PortNoPublic}

\* all sequences over S of length at most n
RECURSIVE SeqsUpTo(_, _)
SeqsUpTo(S, n) ==
  IF n = 0 THEN {<<>>}
  ELSE LET shorter == SeqsUpTo(S, n - 1)
       IN shorter \cup {Append(q, x) : q \in shorter, x \in S}

PortLists == SeqsUpTo(PortPool, MaxPorts)

\* the port lists of the records given to processContainer
RecordPortLists ==
  {<<>>, <<PortWeb, PortWebV6>>, <<PortTls, PortWeb>>, <<PortLoopback, PortUdp>>,
   <<PortUnpublished, PortWebV6>>}

RecordNetworks ==
  {NoNetworks,
   [k \in {"dhcp-ext"} |-> [ipAddress |-> "192.168.1.20"]],
   [k \in {"dhcp-ext"} |-> [ipAddress |-> "0.0.0.0"]],
   [k \in {"dhcp-ext"} |-> [ipAddress |-> ""]],
   [k \in {"bridge"} |-> [ipAddress |-> "172.17.0.2"]]}

\* a labels map holding the three labels that are given a value
LabelsOf(disable, url, port) ==
  LET all == [k \in {"dockhand-tavern.disable", "dockhand-tavern.url",
                     "dockhand-tavern.port"} |->
                CASE k = "dockhand-tavern.disable" -> disable
                  [] k = "dockhand-tavern.url" -> url
                  [] OTHER -> port]
  IN [k \in {x \in DOMAIN all : all[x] # Undefined} |-> all[k]]

RecordStates == {"running", "exited", "paused"}
DisableLabels == {Undefined, "true", "1", "false"}
UrlLabels == {Undefined, "https://myapp.example.com"}
PortLabels == {Undefined, "8443"}

Records ==
  {[id |-> "c1", name |-> "web", image |-> "nginx:latest", state |-> st,
    ports |-> ps, networks |-> nw, labels |-> LabelsOf(d, u, p)] :
     st \in RecordStates, ps \in RecordPortLists, nw \in RecordNetworks,
     d \in DisableLabels, u \in UrlLabels, p \in PortLabels}

ProxyPlain ==
  [enabled |-> TRUE, domain_names |-> <<"plain.example.com", "alt.example.com">>,
   forward_host |-> "10.0.0.5", forward_port |-> 8080,
   ssl_forced |-> FALSE, certificate_id |-> CertNum(0)]
ProxyCert ==
  [enabled |-> TRUE, domain_names |-> <<"tls.example.com">>,
   forward_host |-> "10.0.0.5", forward_port |-> 443,
   ssl_forced |-> FALSE, certificate_id |-> CertNum(7)]
ProxyDisabled == [ProxyApp EXCEPT !.enabled = FALSE]
ProxyElsewhere == [ProxyApp EXCEPT !.forward_host = "10.0.0.9"]
ProxyNoDomain == [ProxyApp EXCEPT !.domain_names = <<>>]

RecordProxyTables ==
  {<<>>, <<ProxyApp>>, <<ProxyDisabled, ProxyPlain>>, <<ProxyElsewhere>>,
   <<ProxyCert, ProxyApp>>, <<ProxyNoDomain, ProxyApp>>, <<ProxyPlain, ProxyApp>>}

\* the characters icon names are drawn from
IconAlphabet == {"a", "B", "7", "-", "_", " ", "!", "."}

RECURSIVE StringsUpTo(_, _)
StringsUpTo(S, n) ==
  IF n = 0 THEN {""}
  ELSE LET shorter == StringsUpTo(S, n - 1)
       IN shorter \cup {q \o x : q \in shorter, x \in S}

IconNames == StringsUpTo(IconAlphabet, MaxLen)

\* elements of the array BOOKMARKS parses to
BookmarkObject(fields) == [t |-> "object", fields |-> fields]
BookmarkDocs ==
  BookmarkObject([k \in {"name", "url", "group"} |->
                    CASE k = "name" -> "Docs" [] k = "url" -> "https://docs.example.com"
                      [] OTHER -> "Help"])
BookmarkNoUrl == BookmarkObject([k \in {"name"} |-> "Broken"])
BookmarkNoName == BookmarkObject([k \in {"url"} |-> "https://nameless.example.com"])
BookmarkEmptyName ==
  BookmarkObject([k \in {"name", "url"} |->
                    IF k = "name" THEN "" ELSE "https://empty.example.com"])
BookmarkItems ==
  {BookmarkWiki, BookmarkDocs, BookmarkNoUrl, BookmarkNoName, BookmarkEmptyName,
   [t |-> "null"], [t |-> "number"], [t |-> "string"]}

BookmarkInputs ==
  {[t |-> "absent"], [t |-> "invalid"],
   [t |-> "other", value |-> BookmarkWiki],
   [t |-> "other", value |-> [t |-> "number"]]}
    \cup {[t |-> "array", items |-> items] : items \in SeqsUpTo(BookmarkItems, MaxItems)}

\* a labels map holding those of the name, compose-service and group labels
\* that are given a value
MetadataLabels(name, service, group) ==
  LET all == [k \in {"dockhand-tavern.name", "com.docker.compose.service",
                     "dockhand-tavern.group"} |->
                CASE k = "dockhand-tavern.name" -> name
                  [] k = "com.docker.compose.service" -> service
                  [] OTHER -> group]
  IN [k \in {x \in DOMAIN all : all[x] # Undefined} |-> all[k]]

NameLabels == {Undefined, "", "My App"}
ServiceLabels == {Undefined, "", "svc"}
GroupLabels == {Undefined, "", "media"}
RecordNames == {"web", ""}

\* running, reachable records that differ in name and metadata labels
NamedRecords ==
  {[id |-> "c2", name |-> n, image |-> "nginx:latest", state |-> "running",
    ports |-> <<PortWeb>>, networks |-> NoNetworks,
    labels |-> MetadataLabels(a, b, g)] :
     n \in RecordNames, a \in NameLabels, b \in ServiceLabels, g \in GroupLabels}

UtilCalls ==
  {[fn |-> "processContainer", container |-> c, environment |-> EnvProd,
    npmProxyHosts |-> hosts] : c \in Records, hosts \in RecordProxyTables}
    \cup {[fn |-> "processContainer", container |-> c, environment |-> EnvProd,
            npmProxyHosts |-> <<>>] : c \in NamedRecords}
    \cup {[fn |-> "extractPorts", ports |-> ps] : ps \in PortLists}
    \cup {[fn |-> "resolveIconUrl", iconLabel |-> Undefined, fallbackName |-> x] :
            x \in IconNames \cup {"ungrouped"}}
    \cup {[fn |-> "resolveIconUrl", iconLabel |-> x, fallbackName |-> "My App"] :
            x \in IconNames \cup {"https://img.example.com/a.png", "Logo.PNG"}}
    \cup {[fn |-> "parseBookmarks", bookmarksEnv |-> b] : b \in BookmarkInputs}

UtilInit ==
  /\ call \in UtilCalls
  /\ returned = <<>>

ProcessContainerReturns ==
  /\ call.fn = "processContainer"
  /\ returned = <<>>
  /\ returned' = <<processContainer(call.container, call.environment,
                                    call.npmProxyHosts)>>
  /\ UNCHANGED <<call, coordVars, clientVars, serverVars>>

ExtractPortsReturns ==
  /\ call.fn = "extractPorts"
  /\ returned = <<>>
  /\ returned' = <<extractPorts(call.ports)>>
  /\ UNCHANGED <<call, coordVars, clientVars, serverVars>>

ResolveIconUrlReturns ==
  /\ call.fn = "resolveIconUrl"
  /\ returned = <<>>
  /\ returned' = <<resolveIconUrl(call.iconLabel, call.fallbackName)>>
  /\ UNCHANGED <<call, coordVars, clientVars, serverVars>>

ParseBookmarksReturns ==
  /\ call.fn = "parseBookmarks"
  /\ returned = <<>>
  /\ returned' = <<parseBookmarks(call.bookmarksEnv)>>
  /\ UNCHANGED <<call, coordVars, clientVars, serverVars>>

UtilNext ==
  \/ ProcessContainerReturns
  \/ ExtractPortsReturns
  \/ ResolveIconUrlReturns
  \/ ParseBookmarksReturns

InitUtils == CoordIdle /\ ClientIdle /\ UtilInit /\ ServerUp

SpecUtils == InitUtils /\ [][UtilNext]_vars

\* ------------------------------------------------------------------------
\* Properties of the cache manager (checked under Spec)
\* ------------------------------------------------------------------------

\* C1: in every reachable state at most one refresh cycle (doRefresh) is in
\* flight, whatever the interleaving of refresh(), refreshImmediate(), timer
\* fires and completions.
C1_AtMostOneCycleInFlight == Len(inflight) <= 1

\* a cycle is running while a debounce timer is due and refreshImmediate was called
C1_Witness ==
  /\ Len(inflight) = 1
  /\ \E t \in timers : now >= t.due
  /\ immediateCalls > 0

\* C2: a burst of refresh() requests (ended by the one fire of the timer the
\* last request armed) executes exactly one refresh cycle: every timer fire
\* starts a cycle.
C2_BurstRunsExactlyOneCycle ==
  [][\A t \in timers : TimerFires(t) => Len(inflight') = Len(inflight) + 1]_vars

\* C3: a refresh() request that arrived while a cycle was running is not
\* dropped: as long as no cycle has started since, its timer is still armed or
\* the cycle it arrived in is still running.
C3_MidCycleRequestNotDropped == owed => (timers # {} \/ inflight # <<>>)

\* C4: when fetchEnvironments fails, the snapshot keeps the environments and
\* entries it had before the cycle; the error field becomes the failure's
\* message and the timestamp the time of the failure.
C4_FailedEnvFetchKeepsData ==
  [][\A i \in 1..Len(inflight) : \A e \in PrimaryErrors :
       EnvFetchThrows(i, e) =>
         /\ data'.environments = inflight[i].dataAtStart.environments
         /\ data'.containers = inflight[i].dataAtStart.containers
         /\ data'.error = e.message
         /\ data'.lastUpdate = now
         /\ Len(inflight') = Len(inflight) - 1]_vars

\* entries published earlier are still served after a failed cycle recorded its error
C4_Witness ==
  /\ inflight = <<>>
  /\ data.error \in {e.message : e \in PrimaryErrors}
  /\ Len(data.containers) > 0
  /\ Len(data.environments) > 0

\* C5: a failing proxy-host fetch leaves the cycle running with an empty
\* proxy-host table, and when the primary fetches then succeed a new snapshot
\* object is published with no error.
C5_SecondaryFailureAbsorbed ==
  [][\A i \in 1..Len(inflight) :
       /\ \A e \in SecondaryErrors :
            NpmFetchThrows(i, e) =>
              /\ Len(inflight') = Len(inflight)
              /\ inflight'[i].pc = "envs"
              /\ inflight'[i].npmProxyHosts = <<>>
              /\ isRefreshing'
              /\ data' = data
       /\ inflight[i].npmFailed => inflight[i].npmProxyHosts = <<>>
       /\ (/\ inflight[i].npmFailed
           /\ \/ \E envs \in EnvLists : EnvFetchReturns(i, envs)
              \/ \E raws \in ContainerLists : ContainersFetchReturns(i, raws)
           /\ Len(inflight') < Len(inflight))
          => /\ dataRef' = dataRef + 1
             /\ data'.error = Undefined
             /\ data'.lastUpdate = now
             /\ \A k \in 1..Len(data'.containers) :
                  ~StartsWith(data'.containers[k].url, "https://")]_vars

\* a cycle whose proxy-host fetch failed has gone on to resolve entries
C5_Witness ==
  \E i \in 1..Len(inflight) :
    /\ inflight[i].npmFailed
    /\ inflight[i].pc = "containers"
    /\ Len(inflight[i].allContainers) > 0

\* C6: get() is enabled in every state and returns the environments,
\* timestamp and error of the current snapshot, with the snapshot's entries
\* followed by the bookmarks.
C6_GetAlwaysAvailable ==
  /\ ENABLED Get
  /\ lastRead # <<>> =>
       LET r == lastRead[1].result
       IN /\ r.environments = data.environments
          /\ r.lastUpdate = data.lastUpdate
          /\ r.error = data.error
          /\ Len(r.containers) = Len(data.containers) + Len(bookmarks)
          /\ SubSeq(r.containers, 1, Len(data.containers)) = data.containers
          /\ SubSeq(r.containers, Len(data.containers) + 1, Len(r.containers)) = bookmarks

\* a read taken while a timer was armed and a cycle was in flight
C6_Witness ==
  /\ lastRead # <<>>
  /\ lastRead[1].cycleInFlight
  /\ lastRead[1].timerArmed
  /\ Len(data.containers) > 0
  /\ Len(bookmarks) > 0

\* C7 as stated: no step changes the contents of the snapshot object while
\* this.data keeps referring to the same object.
C7_SnapshotNeverMutatedInPlace == [][dataRef' = dataRef => data' = data]_vars

\* C7 as amended: a successful cycle replaces the snapshot object; the only
\* in-place change is a failed cycle's assignment of error and timestamp, made
\* in one step, and the environments and entries of an object never change; a
\* read is one step that changes nothing.
C7_OnlyErrorAndTimeSetInPlace ==
  [][/\ dataRef' = dataRef =>
          /\ data'.environments = data.environments
          /\ data'.containers = data.containers
     /\ (dataRef' = dataRef /\ data' # data) =>
          /\ data'.error # Undefined
          /\ Len(inflight') < Len(inflight)
     /\ dataRef' # dataRef =>
          /\ data'.error = Undefined
          /\ Len(inflight') < Len(inflight)
     /\ lastRead' # <<>> =>
          /\ data' = data
          /\ dataRef' = dataRef
          /\ lastRead'[1].ref = dataRef]_vars

\* a published snapshot object that a later failed cycle wrote its error into
C7_Witness ==
  /\ dataRef > 1
  /\ data.error # Undefined
  /\ Len(data.containers) > 0

\* C8: every entry of the snapshot carries the id, name and publicIp of an
\* environment of the same snapshot.
C8_EntriesMatchEnvironments ==
  \A k \in 1..Len(data.containers) :
    \E j \in 1..Len(data.environments) :
      /\ data.containers[k].environment.id = data.environments[j].id
      /\ data.containers[k].environment.name = data.environments[j].name
      /\ data.containers[k].environment.publicIp = data.environments[j].publicIp

\* a snapshot republished after the environment's address changed upstream
C8_Witness ==
  /\ dataRef > 2
  /\ data.environments = <<EnvProdMoved>>
  /\ Len(data.containers) > 0

\* C9: refreshImmediate() starts a cycle in the same step, leaving timer and
\* pending counter alone, when the lock is free; when the lock is held it
\* changes nothing.
C9_ImmediateBypassesDebounce ==
  [][RefreshImmediate =>
       /\ timers' = timers
       /\ debounceTimer' = debounceTimer
       /\ pendingRefreshCount' = pendingRefreshCount
       /\ data' = data
       /\ IF isRefreshing
          THEN inflight' = inflight /\ isRefreshing'
          ELSE /\ Len(inflight') = Len(inflight) + 1
               /\ inflight'[Len(inflight')].caller = "immediate"
               /\ isRefreshing']_vars

\* refreshImmediate was called during the timer's cycle and nothing else started
C9_Witness ==
  /\ immediateCalls = 1
  /\ Len(inflight) = 1
  /\ inflight[1].caller = "timer"
  /\ dataRef = 1
  /\ data.error = Undefined

\* C21: no step changes the bookmark list; no entry of the refreshable
\* snapshot is a bookmark; and every get() result ends with the bookmark
\* list as it was at construction.
C21_BookmarksFixed ==
  [][/\ bookmarks' = bookmarks
     /\ \A k \in 1..Len(data'.containers) :
          /\ data'.containers[k].environment.name # "bookmark"
          /\ \A b \in 1..Len(bookmarks) : data'.containers[k] # bookmarks[b]
     /\ lastRead' # <<>> =>
          LET r == lastRead'[1].result.containers
          IN /\ Len(r) >= Len(bookmarks)
             /\ SubSeq(r, Len(r) - Len(bookmarks) + 1, Len(r)) = bookmarks]_vars

\* a read of the bookmarks behind a published snapshot that a failed cycle
\* then wrote its error into
C21_Witness ==
  /\ lastRead # <<>>
  /\ bookmarks # <<>>
  /\ dataRef > 1
  /\ data.error # Undefined
  /\ Len(lastRead[1].result.containers) > Len(bookmarks)

\* the entries a cycle publishes, given how fetchContainers ended for each of
\* its environments: the resolved records of the fetches that succeeded
RECURSIVE ResolvedOf(_, _, _)
ResolvedOf(fetched, environments, npmProxyHosts) ==
  IF Len(fetched) = 0 THEN <<>>
  ELSE LET n == Len(fetched)
       IN ResolvedOf(SubSeq(fetched, 1, n - 1), environments, npmProxyHosts)
            \o (IF fetched[n].ok
                THEN ProcessAll(fetched[n].rawContainers, environments[n], npmProxyHosts)
                ELSE <<>>)

\* what the environment env adds to allContainers when fetchContainers ended
\* as fetchResult
Contribution(fetchResult, env, npmProxyHosts) ==
  IF fetchResult.ok THEN ProcessAll(fetchResult.rawContainers, env, npmProxyHosts)
  ELSE <<>>

\* how one call of fetchContainers can end
FetchResults ==
  {[ok |-> FALSE]} \cup {[ok |-> TRUE, rawContainers |-> raws] : raws \in ContainerLists}

\* the cycle c publishes after fetchContainers ended as fetchResult for its
\* last environment: a new snapshot object without error, whose entries are
\* those collected so far and those of this fetch, if it succeeded, and none
\* of an environment whose fetch failed
PublishesPartial(c, fetchResult) ==
  /\ dataRef' = dataRef + 1
  /\ data'.error = Undefined
  /\ data'.environments = c.environments
  /\ data'.containers
       = c.allContainers \o Contribution(fetchResult, c.environments[c.idx], c.npmProxyHosts)
  /\ \A j \in 1..c.idx :
       ~Append(c.fetched, fetchResult)[j].ok =>
         \A k \in 1..Len(data'.containers) :
           data'.containers[k].environment.id # c.environments[j].id
  /\ ~isRefreshing'

\* C22: a failing fetchContainers leaves the cycle running with the entries
\* collected so far and moves on to the next environment; the cycle still
\* publishes a new snapshot with no error; the entries collected, and so the
\* entries published, are exactly the resolved records of the environments
\* whose fetch succeeded.
C22_EnvironmentFailureIsolated ==
  /\ [](\A i \in 1..Len(inflight) :
          LET c == inflight[i]
          IN c.pc = "containers" =>
               /\ Len(c.fetched) = c.idx - 1
               /\ c.allContainers = ResolvedOf(c.fetched, c.environments, c.npmProxyHosts))
  /\ [][\A i \in 1..Len(inflight) :
          LET c == inflight[i]
          IN (/\ c.pc = "containers"
              /\ \/ Len(inflight') = Len(inflight) /\ inflight'[i] # c
                 \/ Len(inflight') = Len(inflight) - 1 /\ inflight' = RemoveAt(inflight, i)) =>
               IF c.idx < Len(c.environments)
               THEN /\ Len(inflight') = Len(inflight)
                    /\ inflight'[i].pc = "containers"
                    /\ inflight'[i].idx = c.idx + 1
                    /\ Len(inflight'[i].fetched) = c.idx
                    /\ ~inflight'[i].fetched[c.idx].ok =>
                         inflight'[i].allContainers = c.allContainers
                    /\ isRefreshing'
                    /\ data' = data
               ELSE \/ PublishesPartial(c, [ok |-> FALSE])
                    \/ \E fetchResult \in FetchResults : PublishesPartial(c, fetchResult)]_vars

\* a snapshot of two environments whose entries all come from the second:
\* the fetch for the first one failed
C22_Witness ==
  /\ data.environments = <<EnvProd, EnvLab>>
  /\ data.error = Undefined
  /\ Len(data.containers) > 0
  /\ \A k \in 1..Len(data.containers) : data.containers[k].environment.id = EnvLab.id

\* C23: refresh() only counts the request and arms the timer: it starts no
\* cycle and changes neither snapshot nor lock; it can be called (and returns)
\* in every state, whatever cycle is running; a cycle starts only in a timer
\* callback that is due or in refreshImmediate().
C23_TriggerDoesNotWait ==
  [][/\ requests < MaxRequests => ENABLED Refresh
     /\ Refresh =>
          /\ inflight' = inflight
          /\ isRefreshing' = isRefreshing
          /\ data' = data
          /\ dataRef' = dataRef
          /\ requests' = requests + 1
          /\ pendingRefreshCount' = pendingRefreshCount + 1
          /\ \E t \in timers' : t.due = now + DEBOUNCE_MS
     /\ Len(inflight') > Len(inflight) =>
          \/ \E t \in timers : now >= t.due /\ TimerFires(t)
          \/ RefreshImmediate]_vars

\* every request was acknowledged, the last one with its timer still armed,
\* although an earlier cycle failed
C23_Witness ==
  /\ requests = MaxRequests
  /\ timers # {}
  /\ inflight = <<>>
  /\ ~isRefreshing
  /\ data.error # Undefined

\* C24: the error of the snapshot (which get() returns as it is) is the
\* message of the failure when a cycle is aborted, is cleared when a cycle
\* publishes, and is changed by no other step; it is absent in the initial
\* state.
C24_ErrorReflectsLastCycle ==
  /\ data.error = Undefined
  /\ [][/\ \A i \in 1..Len(inflight) : \A e \in PrimaryErrors :
             EnvFetchThrows(i, e) => data'.error = e.message /\ dataRef' = dataRef
        /\ (Len(inflight') < Len(inflight) /\ dataRef' # dataRef) =>
             data'.error = Undefined
        /\ Len(inflight') < Len(inflight) =>
             \/ dataRef' # dataRef
             \/ \E i \in 1..Len(inflight) : \E e \in PrimaryErrors : EnvFetchThrows(i, e)
        /\ Len(inflight') >= Len(inflight) => data'.error = data.error
        /\ lastRead' # <<>> => lastRead'[1].result.error = data.error]_vars

\* a read that shows the error of an aborted cycle over entries published
\* by an earlier one
C24_Witness ==
  /\ lastRead # <<>>
  /\ lastRead[1].result.error \in {e.message : e \in PrimaryErrors}
  /\ dataRef > 1
  /\ inflight = <<>>
  /\ Len(data.containers) > 0

\* C25: a refresh() received while a timer is armed cancels that timer, arms
\* one due a full interval from now, adds one to the pending count and
\* changes neither snapshot nor lock nor cycles; at most one timer is armed,
\* and a timer callback runs only for the most recent request, a full
\* interval after it.
C25_RequestRestartsTimer ==
  /\ [](Cardinality(timers) <= 1)
  /\ [](\A t \in timers : t.id = requests /\ t.id = debounceTimer)
  /\ [][/\ (Refresh /\ timers # {}) =>
             /\ timers' = {[id |-> requests', due |-> now + DEBOUNCE_MS]}
             /\ timers' \cap timers = {}
             /\ pendingRefreshCount' = pendingRefreshCount + 1
             /\ data' = data
             /\ dataRef' = dataRef
             /\ isRefreshing' = isRefreshing
             /\ inflight' = inflight
        /\ \A t \in timers : TimerFires(t) => (t.id = requests /\ now >= t.due)
        /\ \A t \in timers' \ timers : t.due = now + DEBOUNCE_MS]_vars

\* the second request came half an interval after the first and pushed the
\* fire out to a full interval after itself
C25_Witness ==
  /\ requests = 2
  /\ pendingRefreshCount = 2
  /\ timers = {[id |-> 2, due |-> TickMs + DEBOUNCE_MS]}
  /\ now = TickMs

\* C26: a timer callback that finds a cycle in flight starts none, resets the
\* pending count and leaves snapshot and cycle as they are; one that finds no
\* cycle resets the count, takes the lock and starts exactly one cycle.
C26_TimerFire ==
  [][\A t \in timers :
       TimerFires(t) =>
         /\ pendingRefreshCount' = 0
         /\ data' = data
         /\ dataRef' = dataRef
         /\ isRefreshing'
         /\ IF isRefreshing
            THEN inflight' = inflight
            ELSE /\ inflight = <<>>
                 /\ Len(inflight') = 1
                 /\ inflight'[1].caller = "timer"
                 /\ inflight'[1].pc \in {"npm", "envs"}]_vars

\* the timer fired during the cycle refreshImmediate started: that cycle is
\* still the only one and nothing has been published
C26_Witness ==
  /\ requests >= 1
  /\ timers = {}
  /\ pendingRefreshCount = 0
  /\ Len(inflight) = 1
  /\ inflight[1].caller = "immediate"
  /\ dataRef = 1
  /\ data.error = Undefined

\* C27: the lock is set exactly while a cycle is in flight; when every
\* upstream call eventually returns or fails, every cycle in flight ends and
\* the lock is released, whichever of its fetches failed; every step that ends
\* a cycle is a return of doRefresh that releases the lock with it.
C27_CycleCompletes ==
  /\ [](isRefreshing <=> inflight # <<>>)
  /\ [][Len(inflight') < Len(inflight) => ~isRefreshing']_vars
  /\ (isRefreshing ~> ~isRefreshing)

\* the coordinator is idle again after a cycle whose environment-list fetch
\* failed before anything was published, every request made and fired
C27_Witness ==
  /\ ~isRefreshing
  /\ inflight = <<>>
  /\ timers = {}
  /\ requests = MaxRequests
  /\ immediateCalls = MaxImmediate
  /\ dataRef = 1
  /\ data.error # Undefined

\* C35: at most one timer is armed; the pending count is positive exactly
\* when one is; it starts at zero, grows by one with every refresh() and
\* returns to zero when the timer fires, so it is the number of requests since
\* the last fire.
C35_CounterTracksTimer ==
  /\ [](Cardinality(timers) <= 1)
  /\ [](pendingRefreshCount > 0 <=> timers # {})
  /\ [][pendingRefreshCount'
          = (IF requests' # requests THEN pendingRefreshCount + 1
             ELSE IF timers' # timers THEN 0
             ELSE pendingRefreshCount)]_vars

\* one request is pending after an earlier request's timer fired
C35_Witness ==
  /\ requests = 2
  /\ pendingRefreshCount = 1
  /\ Cardinality(timers) = 1

\* the position of the environment with this id in the list environments
EnvPosition(id, environments) ==
  CHOOSE j \in 1..Len(environments) : environments[j].id = id

\* entries are grouped by environment, in the order of the list environments
OrderedByEnvironment(entries, environments) ==
  \A k \in 1..Len(entries) : \A l \in k..Len(entries) :
    EnvPosition(entries[k].environment.id, environments)
      <= EnvPosition(entries[l].environment.id, environments)

\* the ids of sub appear in full, in the same order
RECURSIVE InOrder(_, _)
InOrder(sub, full) ==
  IF Len(sub) = 0 THEN TRUE
  ELSE IF Len(full) = 0 THEN FALSE
  ELSE IF Head(sub).id = Head(full).id THEN InOrder(Tail(sub), Tail(full))
  ELSE InOrder(sub, Tail(full))

\* the entries of one environment follow the order of the records of one
\* upstream answer
OrderedByRecord(entries, environments) ==
  \A j \in 1..Len(environments) :
    LET own == SelectSeq(entries, LAMBDA e : e.environment.id = environments[j].id)
    IN \E raws \in ContainerLists \cup RecordOrderLists \cup {<<>>} : InOrder(own, raws)

\* C36: a cycle has one upstream call pending at a time and issues them in the
\* order proxy hosts (when configured), environment list, records of
\* environment 1, 2, ...: the call pending after a resumption is the next one
\* in that order or the cycle has returned; the first call of a new cycle is
\* the proxy-host fetch when a secondary client is held and the
\* environment-list fetch otherwise; published entries are ordered by the
\* environment list and, within an environment, by the upstream record order.
C36_CallsInOrder ==
  /\ [](\A i \in 1..Len(inflight) :
          LET c == inflight[i]
          IN /\ c.pc \in {"npm", "envs", "containers"}
             /\ c.pc \in {"npm", "envs"} =>
                  c.environments = <<>> /\ c.idx = 0 /\ c.allContainers = <<>>
             /\ c.pc = "containers" =>
                  /\ c.idx \in 1..Len(c.environments)
                  /\ \A k \in 1..Len(c.allContainers) :
                       EnvPosition(c.allContainers[k].environment.id, c.environments)
                         < c.idx)
  /\ [](OrderedByEnvironment(data.containers, data.environments)
        /\ OrderedByRecord(data.containers, data.environments))
  /\ [][/\ Len(inflight') > Len(inflight) =>
             inflight'[Len(inflight')].pc = (IF npmClient THEN "npm" ELSE "envs")
        /\ \A i \in 1..Len(inflight) :
             LET c == inflight[i]
             IN (Len(inflight') >= Len(inflight) /\ inflight'[i] # c) =>
                  /\ inflight'[i].pc
                       = (IF c.pc = "npm" THEN "envs" ELSE "containers")
                  /\ inflight'[i].idx = (IF c.pc = "npm" THEN 0 ELSE c.idx + 1)
                  /\ c.pc = "containers" => inflight'[i].environments = c.environments
                  /\ c.pc = "containers" =>
                       /\ Len(inflight'[i].allContainers) >= Len(c.allContainers)
                       /\ SubSeq(inflight'[i].allContainers, 1, Len(c.allContainers))
                            = c.allContainers]_vars

\* a snapshot of two environments: one entry of the first, then two of the
\* second in the order of their records
C36_Witness ==
  /\ data.environments = <<EnvProd, EnvLab>>
  /\ Len(data.containers) = 3
  /\ data.containers[1].environment.id = EnvProd.id
  /\ data.containers[2].environment.id = EnvLab.id
  /\ data.containers[2].id = ContNet.id
  /\ data.containers[3].environment.id = EnvLab.id
  /\ data.containers[3].id = ContWeb.id

\* C39: in every state getStats() agrees with what get() returns there:
\* totalContainers + totalBookmarks is the length of get()'s entry list, whose
\* first totalContainers entries are the snapshot's and whose remaining
\* totalBookmarks entries are the bookmarks; totalEnvironments is the number
\* of environments get() returns; hasError is true exactly when get() returns
\* an error; a get() just made returned this result.
C39_StatsMatchGet ==
  LET stats == getStats
      result == GetResult(data, bookmarks)
  IN /\ stats.totalContainers + stats.totalBookmarks = Len(result.containers)
     /\ SubSeq(result.containers, 1, stats.totalContainers) = data.containers
     /\ SubSeq(result.containers, stats.totalContainers + 1, Len(result.containers))
          = bookmarks
     /\ stats.totalEnvironments = Len(result.environments)
     /\ stats.hasError <=> (result.error # Undefined)
     /\ stats.lastUpdate = result.lastUpdate
     /\ lastRead # <<>> => lastRead[1].result = result

\* a get() that returned entries, a bookmark and an error
C39_Witness ==
  /\ lastRead # <<>>
  /\ getStats.totalContainers > 0
  /\ getStats.totalBookmarks > 0
  /\ getStats.totalEnvironments > 0
  /\ getStats.hasError

\* ------------------------------------------------------------------------
\* Properties of the server startup (checked under SpecStartup)
\* ------------------------------------------------------------------------
\* C34: once the startup code has passed the NPM block, the cache manager
\* holds an NPM client exactly when all three values were supplied and
\* testConnection() returned true; a cycle waits for fetchProxyHosts() only
\* when it holds one, and a cycle without one runs with an empty table.
C34_SecondaryOnlyWhenConnected ==
  /\ boot.pc # "npm" =>
       (npmClient <=> (NpmConfigured(boot.npmConfig) /\ boot.npmConnected = "true"))
  /\ \A i \in 1..Len(inflight) :
       /\ inflight[i].pc = "npm" => npmClient
       /\ ~npmClient => inflight[i].npmProxyHosts = <<>>

\* a debounced cycle fetches records without proxy-host table on a server
\* whose NPM values were all supplied and whose connection test failed
C34_Witness ==
  /\ boot.pc = "listening"
  /\ NpmConfigured(boot.npmConfig)
  /\ boot.npmConnected = "false"
  /\ Len(inflight) = 1
  /\ inflight[1].caller = "timer"
  /\ inflight[1].pc = "containers"
  /\ inflight[1].npmProxyHosts = <<>>

\* C37: requests are served only by a listening server, and the server
\* listens only after its one refreshImmediate() call started a cycle and
\* that cycle ended; the snapshot object of the constructor is then still in
\* place only with an error recorded and no entries, and that is all a reader
\* can see of it.
C37_InitialCycleFirst ==
  /\ (requests > 0 \/ timers # {} \/ lastRead # <<>>) => boot.pc = "listening"
  /\ \A i \in 1..Len(inflight) :
       inflight[i].caller = "immediate" => boot.pc = "populate"
  /\ (immediateCalls = 1 /\ inflight = <<>>) =>
       (dataRef > 1 \/ data.error # Undefined)
  /\ boot.pc = "listening" =>
       /\ immediateCalls = 1
       /\ dataRef = 1 =>
            /\ data.error # Undefined
            /\ data.containers = <<>>
            /\ data.environments = <<>>
  /\ (lastRead # <<>> /\ lastRead[1].ref = 1) =>
       /\ lastRead[1].result.error # Undefined
       /\ lastRead[1].result.containers = bookmarks

\* a reader is given the constructor's snapshot with the error of the failed
\* initial cycle
C37_Witness ==
  /\ boot.pc = "listening"
  /\ lastRead # <<>>
  /\ lastRead[1].ref = 1
  /\ lastRead[1].result.error \in {e.message : e \in PrimaryErrors}
  /\ requests = 0

\* ------------------------------------------------------------------------
\* Properties of the session clients (checked under SpecClient)
\* ------------------------------------------------------------------------
DataIdx(w) == {i \in 1..Len(w) : w[i].req = "data"}
LoginIdx(w) == {i \in 1..Len(w) : w[i].req = "login"}
AnsweredWith(w, i, status) ==
  w[i].resp # <<>> /\ w[i].resp[1].net /\ w[i].resp[1].status = status
\* the call's first data request came back unauthorized
Unauthorized(w) ==
  \E i \in DataIdx(w) : (\A j \in DataIdx(w) : i <= j) /\ AnsweredWith(w, i, 401)
FirstData(w) == CHOOSE i \in DataIdx(w) : \A j \in DataIdx(w) : i <= j
ReLogins(w) == {j \in LoginIdx(w) : j > FirstData(w)}

\* C10 as stated: a call whose data request came back unauthorized has, when
\* it ends, performed exactly one login exchange after that answer and sent
\* the data request exactly twice.
C10_UnauthorizedRetriedExactlyOnce ==
  (cpc = "idle" /\ Unauthorized(wire)) =>
    /\ Cardinality(ReLogins(wire)) = 1
    /\ Cardinality(DataIdx(wire)) = 2

\* C10 as amended: after an unauthorized answer the credential is cleared and
\* the login exchange is attempted exactly once; the data request is retried
\* exactly once if that login succeeds and not at all if it fails (the login's
\* error is propagated); a failed retry is propagated with no further login
\* or request; one call sends at most two data requests.
C10_OneReauthAtMostOneRetry ==
  /\ Cardinality(DataIdx(wire)) <= 2
  /\ (wire # <<>> /\ ~Unauthorized(wire)) => Cardinality(DataIdx(wire)) <= 1
  /\ Unauthorized(wire) =>
       LET relogin == FirstData(wire) + 1
       IN /\ ReLogins(wire) = {relogin}
          /\ cpc = "reauth" => credential = Undefined /\ Len(wire) = relogin
          /\ cpc \in {"reauth", "retry", "idle"}
          /\ (cpc # "reauth" /\ authenticate(kind, wire[relogin].resp[1]).ok) =>
               /\ DataIdx(wire) = {FirstData(wire), relogin + 1}
               /\ Len(wire) = relogin + 1
               /\ cpc = "idle" =>
                    outcome.state =
                      (IF /\ AnsweredWith(wire, relogin + 1, 200)
                          /\ wire[relogin + 1].resp[1].bodyOk
                       THEN "resolved" ELSE "rejected")
          /\ (cpc # "reauth" /\ ~authenticate(kind, wire[relogin].resp[1]).ok) =>
               /\ cpc = "idle"
               /\ Len(wire) = relogin
               /\ outcome.state = "rejected"
               /\ outcome.error = authenticate(kind, wire[relogin].resp[1]).error

\* a call that was answered unauthorized twice and gave up
C10_Witness ==
  /\ cpc = "idle"
  /\ Unauthorized(wire)
  /\ Cardinality(DataIdx(wire)) = 2
  /\ AnsweredWith(wire, Len(wire), 401)
  /\ outcome.state = "rejected"

\* the upstream answered the login exchange and the client holds no usable
\* credential artifact from it: the credentials were rejected, or the answer
\* was successful but carried no session cookie / token
NoArtifact(r) == r.net /\ (~ResponseOk(r) \/ ~Truthy(r.artifact))

\* C11: for both session clients, a login exchange that the upstream rejects,
\* or answers successfully without the credential artifact, fails: the call
\* ends there with an error (testConnection reports false), no data request is
\* sent, and the stored credential is left as it was.
C11_LoginFailsWithoutArtifact ==
  [][\A r \in LoginAnswers(kind) :
       (LoginAnswered(r) /\ NoArtifact(r)) =>
         /\ credential' = credential
         /\ cpc' = "idle"
         /\ Len(wire') = Len(wire)
         /\ (outcome'.state = "rejected" \/ outcome' = Resolved(FALSE))]_vars

\* C12: testConnection() sends exactly one login exchange and nothing else,
\* never ends rejected, and resolves to true exactly when the login exchange
\* yielded a credential (successful answer carrying the artifact).
C12_TestConnectionReportsLogin ==
  [][/\ CallTestConnection => (Len(wire') = 1 /\ wire'[1].req = "login")
     /\ \A r \in LoginAnswers(kind) :
          (cpc = "test" /\ LoginAnswered(r)) =>
            /\ Len(wire') = 1
            /\ wire'[1].req = "login"
            /\ cpc' = "idle"
            /\ outcome'.state = "resolved"
            /\ outcome'.value = (r.net /\ ResponseOk(r) /\ Truthy(r.artifact))]_vars

\* the credentials a successful login exchange hands out
IssuedCredentials(k) ==
  {r.artifact : r \in {a \in LoginAnswers(k) :
                         a.net /\ ResponseOk(a) /\ Truthy(a.artifact)}}

\* the step sends a data request
SendsData == Len(wire') > Len(wire) /\ wire'[Len(wire')].req = "data"

\* C38: for both session clients, a data request is sent only while a
\* credential is held and carries that credential, which a successful login
\* exchange handed out; request() starts with a login exchange when no
\* credential is held and with the data request itself when one is.
C38_DataRequestsCarryCredential ==
  /\ [](\A j \in DataIdx(wire) : wire[j].cred \in IssuedCredentials(kind))
  /\ [][/\ SendsData =>
             /\ Truthy(credential')
             /\ wire'[Len(wire')].cred = credential'
        /\ CallRequest =>
             /\ Len(wire') = 1
             /\ wire'[1].req = (IF Truthy(credential) THEN "data" ELSE "login")]_vars

\* ------------------------------------------------------------------------
\* Properties of the entry resolver and the bookmark loader (checked under
\* SpecUtils)
\* ------------------------------------------------------------------------
ProcessContainerDone == call.fn = "processContainer" /\ returned # <<>>

LabelIs(container, key, values) ==
  key \in DOMAIN container.labels /\ container.labels[key] \in values
HasLabel(container, key) ==
  key \in DOMAIN container.labels /\ container.labels[key] # ""

\* the public ports of the entries bound to a routable address over TCP
ReachablePorts(ports) ==
  {ports[i].PublicPort : i \in {j \in 1..Len(ports) :
                                  /\ ports[j].PublicPort # 0
                                  /\ ports[j].IP \notin {"", "::", "127.0.0.1"}
                                  /\ ports[j].Type = "tcp"}}

\* the record has a non-empty, non-zero address on the network dhcp-ext
HasNetworkAddress(networks) ==
  /\ "dhcp-ext" \in DOMAIN networks
  /\ networks["dhcp-ext"].ipAddress \notin {"", "0.0.0.0", Undefined}

\* C13: for every record whose state is not "running", processContainer
\* returns null, whatever its ports, networks and labels are.
C13_NotRunningIsAbsent ==
  (ProcessContainerDone /\ call.container.state # "running") => returned[1] = <<>>

\* a stopped record with a reachable port, a network address and a URL label
C13_Witness ==
  /\ ProcessContainerDone
  /\ call.container.state = "exited"
  /\ ReachablePorts(call.container.ports) # {}
  /\ HasNetworkAddress(call.container.networks)
  /\ HasLabel(call.container, "dockhand-tavern.url")
  /\ ~HasLabel(call.container, "dockhand-tavern.disable")
  /\ returned[1] = <<>>

\* C14: for every record whose disable label is "true" or "1",
\* processContainer returns null, whatever its state, ports, networks and
\* other labels (an explicit URL label included) are.
C14_DisabledIsAbsent ==
  (/\ ProcessContainerDone
   /\ LabelIs(call.container, "dockhand-tavern.disable", {"true", "1"}))
    => returned[1] = <<>>

\* a running record with a reachable port and a URL label, disabled with "1"
C14_Witness ==
  /\ ProcessContainerDone
  /\ LabelIs(call.container, "dockhand-tavern.disable", {"1"})
  /\ call.container.state = "running"
  /\ ReachablePorts(call.container.ports) # {}
  /\ HasLabel(call.container, "dockhand-tavern.url")
  /\ returned[1] = <<>>

\* C15: processContainer returns an entry if and only if the record is
\* running, its disable label is neither "true" nor "1", and it has a
\* reachable TCP port or a non-empty, non-zero address on dhcp-ext.
C15_EntryIffRunningEnabledReachable ==
  ProcessContainerDone =>
    (returned[1] # <<>>
       <=> /\ call.container.state = "running"
           /\ ~LabelIs(call.container, "dockhand-tavern.disable", {"true", "1"})
           /\ \/ ReachablePorts(call.container.ports) # {}
              \/ HasNetworkAddress(call.container.networks))

\* a running, enabled record with a URL label whose only address is 0.0.0.0
\* on dhcp-ext and whose ports are all filtered out
C15_Witness ==
  /\ ProcessContainerDone
  /\ call.container.state = "running"
  /\ ~HasLabel(call.container, "dockhand-tavern.disable")
  /\ HasLabel(call.container, "dockhand-tavern.url")
  /\ call.container.ports = <<PortLoopback, PortUdp>>
  /\ "dhcp-ext" \in DOMAIN call.container.networks
  /\ call.container.networks["dhcp-ext"].ipAddress = "0.0.0.0"
  /\ returned[1] = <<>>

\* the permutations of 1..n
Perms(n) == {f \in [1..n -> 1..n] : \A i, j \in 1..n : f[i] = f[j] => i = j}

\* C16: extractPorts returns the same sequence for every permutation of its
\* argument (repeated entries included); that sequence is strictly ascending
\* and holds every reachable public port.
C16_PortsOrderIndependent ==
  (call.fn = "extractPorts" /\ returned # <<>>) =>
    LET ports == call.ports
        r == returned[1]
    IN /\ \A f \in Perms(Len(ports)) :
            extractPorts([i \in 1..Len(ports) |-> ports[f[i]]]) = r
       /\ \A i \in 1..(Len(r) - 1) : r[i] < r[i + 1]
       /\ \A x \in ReachablePorts(ports) : \E i \in 1..Len(r) : r[i] = x

\* a list that names the larger port first and one port twice
C16_Witness ==
  /\ call.fn = "extractPorts"
  /\ call.ports = <<PortWeb, PortTls, PortWeb>>
  /\ returned = << <<443, 8080>> >>

\* the URL of the first enabled proxy host forwarding to (envIp, port), when
\* it has a domain name; Undefined otherwise
FirstProxyUrl(envIp, port, hosts) ==
  LET idx == {i \in 1..Len(hosts) : /\ hosts[i].enabled
                                     /\ hosts[i].forward_host = envIp
                                     /\ hosts[i].forward_port = port}
  IN IF idx = {} THEN Undefined
     ELSE LET h == hosts[CHOOSE i \in idx : \A j \in idx : i <= j]
          IN IF h.domain_names = <<>> THEN Undefined
             ELSE (IF h.ssl_forced \/ h.certificate_id \notin {CertNull, CertNum(0)}
                   THEN "https://" ELSE "http://") \o h.domain_names[1]

\* C17: for a record that resolves to an entry, the URL is the URL label
\* verbatim when the label is set, even when a proxy host matches and ports
\* exist; otherwise the URL of the first enabled proxy host forwarding to the
\* environment's address and the first reachable port, when there is one;
\* and a synthesized http:// URL only when neither applies.
C17_UrlPriority ==
  (ProcessContainerDone /\ returned[1] # <<>>) =>
    LET c == call.container
        url == returned[1][1].url
        envIp == call.environment.publicIp
        reachable == ReachablePorts(c.ports)
        first == CHOOSE x \in reachable : \A y \in reachable : x <= y
        proxyUrl == IF reachable = {} THEN Undefined
                    ELSE FirstProxyUrl(envIp, first, call.npmProxyHosts)
    IN IF HasLabel(c, "dockhand-tavern.url")
       THEN url = c.labels["dockhand-tavern.url"]
       ELSE IF proxyUrl # Undefined
       THEN url = proxyUrl
       ELSE IF reachable # {}
       THEN url = "http://" \o envIp \o ":" \o ToString(first)
       ELSE /\ StartsWith(url, "http://" \o c.networks["dhcp-ext"].ipAddress)
            /\ HasLabel(c, "dockhand-tavern.port") =>
                 url = "http://" \o c.networks["dhcp-ext"].ipAddress \o ":"
                         \o c.labels["dockhand-tavern.port"]
            /\ ~HasLabel(c, "dockhand-tavern.port") =>
                 url = "http://" \o c.networks["dhcp-ext"].ipAddress

\* a record that satisfies all three rules at once: URL label, matching
\* enabled proxy host, reachable port
C17_Witness ==
  /\ ProcessContainerDone
  /\ returned[1] # <<>>
  /\ HasLabel(call.container, "dockhand-tavern.url")
  /\ call.npmProxyHosts = <<ProxyApp>>
  /\ call.container.ports = <<PortWeb, PortWebV6>>
  /\ returned[1][1].url = "https://myapp.example.com"

IconCdn == "https://cdn.jsdelivr.net/gh/selfhst/icons/png/"

\* every character of s is one of a-z, 0-9 or the hyphen
OnlyIconCharacters(s) ==
  LET class == "abcdefghijklmnopqrstuvwxyz0123456789-"
  IN \A i \in 1..Len(s) : \E k \in 1..Len(class) : SubSeq(s, i, i) = SubSeq(class, k, k)

\* the strings a call of resolveIconUrl was given
IconArguments ==
  {call.fallbackName} \cup (IF call.iconLabel = Undefined THEN {} ELSE {call.iconLabel})

\* C18: sanitizing an icon name twice gives what sanitizing it once gives,
\* for every input string, and the sanitized name (the one resolveIconUrl
\* puts between the CDN prefix and ".png") has only characters of [a-z0-9-].
C18_SanitizeIdempotent ==
  (call.fn = "resolveIconUrl" /\ returned # <<>>) =>
    /\ \A x \in IconArguments :
         /\ SanitizeIconName(SanitizeIconName(x)) = SanitizeIconName(x)
         /\ OnlyIconCharacters(SanitizeIconName(x))
    /\ StartsWith(returned[1], IconCdn) =>
         LET name == SubSeq(returned[1], Len(IconCdn) + 1, Len(returned[1]) - 4)
         IN /\ OnlyIconCharacters(name)
            /\ SanitizeIconName(name) = name

\* a name with an upper-case letter, a separator run and a stripped character
C18_Witness ==
  /\ call.fn = "resolveIconUrl"
  /\ call.iconLabel = Undefined
  /\ call.fallbackName = "B_!"
  /\ returned = <<IconCdn \o "b-.png">>

\* an element of the BOOKMARKS array that has both a name and a url
ValidBookmark(b) ==
  /\ b.t = "object"
  /\ "name" \in DOMAIN b.fields /\ b.fields["name"] # ""
  /\ "url" \in DOMAIN b.fields /\ b.fields["url"] # ""

\* C19: for a configuration value that parses to a JSON array, parseBookmarks
\* returns exactly the valid elements (those with name and url), in their
\* order, each converted to an entry; an invalid element of any shape is
\* skipped by itself.
C19_BookmarksBestEffortPerEntry ==
  (call.fn = "parseBookmarks" /\ returned # <<>> /\ call.bookmarksEnv.t = "array") =>
    LET valid == SelectSeq(call.bookmarksEnv.items, ValidBookmark)
    IN returned[1] = [i \in 1..Len(valid) |-> processBookmark(valid[i])]

\* C20: parseBookmarks always returns a list: the empty list for an absent,
\* non-parseable or non-array configuration value, and for an array a list
\* no longer than the array.
C20_ParseBookmarksNeverThrows ==
  (call.fn = "parseBookmarks" /\ returned # <<>>) =>
    IF call.bookmarksEnv.t = "array"
    THEN /\ Len(returned[1]) <= Len(call.bookmarksEnv.items)
         /\ \A i \in 1..Len(returned[1]) : returned[1][i].environment.name = "bookmark"
    ELSE returned[1] = <<>>

\* a value that parses to a lone bookmark object instead of an array
C20_Witness ==
  /\ call.fn = "parseBookmarks"
  /\ call.bookmarksEnv = [t |-> "other", value |-> BookmarkWiki]
  /\ returned = << <<>> >>

\* the public ports of the entries of ports that Excluded does not exclude
PortsNotExcluded(ports, Excluded(_)) ==
  {ports[j].PublicPort : j \in {k \in 1..Len(ports) : ~Excluded(ports[k])}}

\* the set of the elements of a sequence
Elements(r) == {r[i] : i \in 1..Len(r)}

\* C28 as stated: extractPorts returns the public ports of all entries but
\* those bound to "::", bound to 127.0.0.1, not TCP, or lacking both a public
\* port and a bind address.
C28_ExcludedWhenBothMissing ==
  (call.fn = "extractPorts" /\ returned # <<>>) =>
    Elements(returned[1])
      = PortsNotExcluded(call.ports,
                         LAMBDA port : \/ port.IP = "::"
                                       \/ port.IP = "127.0.0.1"
                                       \/ port.Type # "tcp"
                                       \/ (port.PublicPort = 0 /\ port.IP = ""))

\* C28: extractPorts returns exactly the public ports of all entries but
\* those bound to "::", bound to 127.0.0.1, not TCP, or lacking a public port
\* or a bind address (either one), each port once.
C28_ExcludedWhenEitherMissing ==
  (call.fn = "extractPorts" /\ returned # <<>>) =>
    /\ Elements(returned[1])
         = PortsNotExcluded(call.ports,
                            LAMBDA port : \/ port.IP = "::"
                                          \/ port.IP = "127.0.0.1"
                                          \/ port.Type # "tcp"
                                          \/ port.PublicPort = 0
                                          \/ port.IP = "")
    /\ Len(returned[1]) = Cardinality(Elements(returned[1]))

\* a list with a published port next to an entry without bind address and an
\* entry without public port
C28_Witness ==
  /\ call.fn = "extractPorts"
  /\ call.ports = <<PortNoIp, PortWeb, PortNoPublic>>
  /\ returned = << <<8080>> >>

\* the indices of the enabled entries of hosts that forward to (envIp, port)
EnabledMatches(hosts, envIp, port) ==
  {i \in 1..Len(hosts) : /\ hosts[i].enabled
                         /\ hosts[i].forward_host = envIp
                         /\ hosts[i].forward_port = port}

\* a record resolved to an entry by the proxy rule or the synthesized URL: it
\* has no URL label, a reachable port, and a proxy-host table was supplied
ProxyRuleApplies ==
  /\ ProcessContainerDone
  /\ returned[1] # <<>>
  /\ ~HasLabel(call.container, "dockhand-tavern.url")
  /\ ReachablePorts(call.container.ports) # {}
  /\ call.npmProxyHosts # <<>>

\* C29: with no URL label, a reachable port and a proxy-host table, the URL
\* comes from the first enabled entry that forwards to the environment's
\* address and the smallest reachable port: scheme://firstDomainName, with
\* https iff ssl_forced or a non-zero, non-null certificate_id; when no entry
\* matches (only disabled ones, or ones for a larger port) the URL is the
\* synthesized one.
C29_ProxySelection ==
  ProxyRuleApplies =>
    LET hosts == call.npmProxyHosts
        envIp == call.environment.publicIp
        reachable == ReachablePorts(call.container.ports)
        smallest == CHOOSE x \in reachable : \A y \in reachable : x <= y
        matches == EnabledMatches(hosts, envIp, smallest)
        url == returned[1][1].url
    IN IF matches = {}
       THEN url = "http://" \o envIp \o ":" \o ToString(smallest)
       ELSE LET h == hosts[CHOOSE i \in matches : \A j \in matches : i <= j]
                secure == \/ h.ssl_forced
                          \/ h.certificate_id \notin {CertNull, CertNum(0)}
            IN h.domain_names # <<>> =>
                 url = (IF secure THEN "https" ELSE "http") \o "://" \o h.domain_names[1]

\* two enabled entries forward to the smallest port: the first one, without
\* certificate, gives the URL, with its first domain name
C29_Witness ==
  /\ ProxyRuleApplies
  /\ call.container.ports = <<PortWeb, PortWebV6>>
  /\ call.npmProxyHosts = <<ProxyPlain, ProxyApp>>
  /\ returned[1][1].url = "http://plain.example.com"

\* C30: when the first enabled matching entry has no domain name the URL is
\* the synthesized http://{publicIp}:{port}, whatever entries follow it.
C30_NoDomainFallsThrough ==
  ProxyRuleApplies =>
    LET hosts == call.npmProxyHosts
        envIp == call.environment.publicIp
        reachable == ReachablePorts(call.container.ports)
        smallest == CHOOSE x \in reachable : \A y \in reachable : x <= y
        matches == EnabledMatches(hosts, envIp, smallest)
    IN (/\ matches # {}
        /\ hosts[CHOOSE i \in matches : \A j \in matches : i <= j].domain_names = <<>>) =>
         returned[1][1].url = "http://" \o envIp \o ":" \o ToString(smallest)

\* a match without domain name followed by a match that has one
C30_Witness ==
  /\ ProxyRuleApplies
  /\ call.container.ports = <<PortWeb, PortWebV6>>
  /\ call.npmProxyHosts = <<ProxyNoDomain, ProxyApp>>
  /\ returned[1][1].url = "http://10.0.0.5:8080"

\* no enabled entry of the supplied table forwards to the environment's
\* address and the smallest reachable port of the record
NoProxyMatch ==
  LET reachable == ReachablePorts(call.container.ports)
  IN \/ reachable = {}
     \/ EnabledMatches(call.npmProxyHosts, call.environment.publicIp,
                       CHOOSE x \in reachable : \A y \in reachable : x <= y) = {}

\* C31: without URL label and proxy match the URL is
\* http://{publicIp}:{smallest reachable port} when a reachable port exists,
\* whether or not dhcp-ext has an address; without reachable port it is
\* http://{dhcp-ext address}, followed by ":" and the port label when that
\* label is set.
C31_SynthesizedUrl ==
  (/\ ProcessContainerDone
   /\ returned[1] # <<>>
   /\ ~HasLabel(call.container, "dockhand-tavern.url")
   /\ NoProxyMatch) =>
    LET c == call.container
        url == returned[1][1].url
        reachable == ReachablePorts(c.ports)
    IN IF reachable # {}
       THEN url = "http://" \o call.environment.publicIp \o ":"
                    \o ToString(CHOOSE x \in reachable : \A y \in reachable : x <= y)
       ELSE /\ HasNetworkAddress(c.networks)
            /\ url = "http://" \o c.networks["dhcp-ext"].ipAddress
                       \o (IF HasLabel(c, "dockhand-tavern.port")
                           THEN ":" \o c.labels["dockhand-tavern.port"]
                           ELSE "")

\* a record with two reachable ports, an address on dhcp-ext and a port
\* label, given a table whose only entry forwards to the larger port
C31_Witness ==
  /\ ProcessContainerDone
  /\ ~HasLabel(call.container, "dockhand-tavern.url")
  /\ HasLabel(call.container, "dockhand-tavern.port")
  /\ call.container.ports = <<PortTls, PortWeb>>
  /\ HasNetworkAddress(call.container.networks)
  /\ call.npmProxyHosts = <<ProxyApp>>
  /\ returned[1] # <<>>
  /\ returned[1][1].url = "http://10.0.0.5:443"

\* C32: every record that resolves to an entry has a reachable port or an
\* address on dhcp-ext, so its URL is never the bare http://{publicIp} of
\* buildContainerUrl's last line unless the URL label says so.
C32_FallbackUnreachable ==
  (ProcessContainerDone /\ returned[1] # <<>>) =>
    /\ \/ ReachablePorts(call.container.ports) # {}
       \/ HasNetworkAddress(call.container.networks)
    /\ ~HasLabel(call.container, "dockhand-tavern.url") =>
         returned[1][1].url # "http://" \o call.environment.publicIp

\* an entry without URL label whose ports are all filtered out: its URL is
\* built from the address on dhcp-ext
C32_Witness ==
  /\ ProcessContainerDone
  /\ returned[1] # <<>>
  /\ call.container.labels = LabelsOf(Undefined, Undefined, Undefined)
  /\ call.container.ports = <<PortLoopback, PortUdp>>
  /\ returned[1][1].url = "http://192.168.1.20"

\* C33: the display name of an entry is the name label when it is non-empty,
\* else the compose-service label when that is non-empty, else the record's
\* name; the group is the group label when non-empty, else "ungrouped".
C33_NameAndGroup ==
  (ProcessContainerDone /\ returned[1] # <<>>) =>
    LET c == call.container
        entry == returned[1][1]
    IN /\ entry.displayName
            = (IF HasLabel(c, "dockhand-tavern.name")
               THEN c.labels["dockhand-tavern.name"]
               ELSE IF HasLabel(c, "com.docker.compose.service")
               THEN c.labels["com.docker.compose.service"]
               ELSE c.name)
       /\ entry.group
            = (IF HasLabel(c, "dockhand-tavern.group")
               THEN c.labels["dockhand-tavern.group"]
               ELSE "ungrouped")

\* an empty name label and an empty group label next to a compose-service
\* label
C33_Witness ==
  /\ ProcessContainerDone
  /\ returned[1] # <<>>
  /\ call.container.labels = MetadataLabels("", "svc", "")
  /\ returned[1][1].displayName = "svc"
  /\ returned[1][1].group = "ungrouped"

====
